---- MODULE Spec2Model ----
(***************************************************************************)
(* Model of the student management backend: the three Mongoose            *)
(* collections (User, Student, Result), the Express routers mounted       *)
(* under /api/data and the schema hooks that run on save.                  *)
(*                                                                         *)
(* Units: a gpa is kept in hundredths (500 is 5.0), a percentage in        *)
(* hundredths of a percent (8000 is 80%).  A null ObjectId is NoId.        *)
(***************************************************************************)
EXTENDS Integers, Sequences, FiniteSets, Bags, TLC

VARIABLES users, students, results, resp, nextUid, nextSid, setupInFlight,
          inflight, nextToken, now, dbConnected, dbPromise, attempts

\* the state of the serverless entry's database connection
dbVars == <<dbConnected, dbPromise, attempts>>

vars == <<users, students, results, resp, nextUid, nextSid, setupInFlight,
          inflight, nextToken, now, dbVars>>

(***************************************************************************)
(* Bounds of the model.                                                    *)
(***************************************************************************)
\* largest score or total a request carries
MaxScore == 1

\* refresh tokens generateTokens hands out in one run
MaxIssued == 6

\* the same, in the runs where requests overlap
MaxIssuedOverlapping == 4

\* requests that are between their read and their save
MaxInFlight == 2

\* the last tick of the clock; a tick is twelve hours
MaxNow == 62

\* admin accounts that exist when a run on the admin codes starts
MaxSeededAdmins == 2

\* admin accounts created in such a run
MaxCreatedAdmins == 2
\* number of Result documents the collection may hold
MaxResults == 1
\* number of User documents ever created
MaxUsers == 2
\* number of Student documents ever created
MaxStudents == 1
\* number of /setup-super-admin requests between their check and their save
MaxSetupInFlight == 2

\* createdBy: { default: null }
NoId == 0

\* adminCode: sparse, undefined unless set
NoCode == <<>>

(***************************************************************************)
(* Strings of digits, as sequences of the digits, and the String and       *)
(* Array methods the handlers call on them.                                *)
(***************************************************************************)
\* arr.slice(-n), str.slice(-n)
slice(str, n) ==
    IF Len(str) <= n THEN str
    ELSE SubSeq(str, Len(str) - n + 1, Len(str))

RECURSIVE toString(_)
toString(n) == IF n < 10 THEN <<n>> ELSE toString(n \div 10) \o <<n % 10>>

RECURSIVE padStart(_, _)
padStart(str, len) == IF Len(str) >= len THEN str ELSE padStart(<<0>> \o str, len)

RECURSIVE parseInt(_)
parseInt(str) ==
    IF Len(str) = 1 THEN str[1]
    ELSE 10 * parseInt(SubSeq(str, 1, Len(str) - 1)) + str[Len(str)]

\* new RegExp(`^${prefix}`) matches str
startsWith(str, prefix) ==
    Len(str) >= Len(prefix) /\ SubSeq(str, 1, Len(prefix)) = prefix

\* a sorts before b as strings
StringLess(a, b) ==
    \E i \in 1..Len(b) :
        /\ \A j \in 1..(i - 1) : j <= Len(a) /\ a[j] = b[j]
        /\ i > Len(a) \/ a[i] < b[i]

\* year.slice(-2) + month of the clock: the run stays within November 2026
YYMM == <<2, 6, 1, 1>>

\* the code with sequence number n of the month
AdminCode(n) == YYMM \o padStart(toString(n), 3)

\* dbPromise when no attempt to connect has been started or the last failed
NoPromise == 0

\* The routers run on an established connection: the entry has connected
\* once (attempt 1 succeeded).
Connected ==
    /\ dbConnected = TRUE
    /\ dbPromise = 1
    /\ attempts = <<"fulfilled">>

\* A response: the route, res.status(...), the message of the body, and what
\* the handler wrote to console.error before answering (<<>> when nothing).
NoResp == [op |-> "none", status |-> 0, message |-> "", log |-> <<>>]

\* The requests that have read the database and not yet written: none at rest.
NoRequests == EmptyBag

\* the requests in flight once r has been answered
Answered(r) == inflight (-) SetToBag({r})

Reply(op, status, message) ==
    [op |-> op, status |-> status, message |-> message, log |-> <<>>]

ReplyLogged(op, status, message, log) ==
    [op |-> op, status |-> status, message |-> message, log |-> log]

(***************************************************************************)
(* Seed population: an installation after the bootstrap, two admins, one   *)
(* teacher per admin and one student, as /setup-super-admin,               *)
(* /admin/create, /teacher/create and /student/create leave them.          *)
(***************************************************************************)
SeedIds ==
    [super |-> 1, admin1 |-> 2, admin2 |-> 3, teacher1 |-> 4, teacher2 |-> 5,
     student1 |-> 101, nobody |-> 102]

Roles == {"super_admin", "admin", "teacher"}

Sections == {"A", "B"}

\* adminCode is the string of digits, NoCode when
\* the document has none
UserDoc(role, createdBy, assignedClasses, firstName, adminCode) ==
    [role |-> role, createdBy |-> createdBy, assignedClasses |-> assignedClasses,
     firstName |-> firstName, adminCode |-> adminCode, refreshTokens |-> <<>>]

SeedUsers ==
    (SeedIds.super :> UserDoc("super_admin", NoId, {}, "n0", NoCode)) @@
    (SeedIds.admin1 :> UserDoc("admin", SeedIds.super, {}, "n0", AdminCode(1))) @@
    (SeedIds.admin2 :> UserDoc("admin", SeedIds.super, {}, "n0", AdminCode(2))) @@
    (SeedIds.teacher1 :> UserDoc("teacher", SeedIds.admin1, {<<"9", "A">>}, "n0", NoCode)) @@
    (SeedIds.teacher2 :> UserDoc("teacher", SeedIds.admin2, {<<"9", "B">>}, "n0", NoCode))

StudentDoc(name, userName, password, roll, class, section, createdBy) ==
    [name |-> name, userName |-> userName, password |-> password, roll |-> roll,
     class |-> class, section |-> section, createdBy |-> createdBy,
     refreshTokens |-> <<>>, paymentAmount |-> 0, hasPaid |-> FALSE,
     paymentDetails |-> <<>>, createdAt |-> 0]

\* studentSchema.pre("save"): paymentAmount and hasPaid follow the latest
\* entry of paymentDetails and the clock
studentPreSave(doc) ==
    IF Len(doc.paymentDetails) > 0
    THEN LET latestPayment == doc.paymentDetails[Len(doc.paymentDetails)]
         IN  [doc EXCEPT !.hasPaid = latestPayment.isPaid,
                         !.paymentAmount =
                             IF latestPayment.isPaid THEN 0
                             ELSE IF now > latestPayment.dueDate
                             THEN latestPayment.increasedAmount
                             ELSE latestPayment.initialAmount]
    ELSE [doc EXCEPT !.paymentAmount = 0, !.hasPaid = FALSE]

SeedStudents ==
    (SeedIds.student1 :> StudentDoc("n0", "u1", "h0", 1, "9", "A", SeedIds.admin1))

(***************************************************************************)
(* Middleware shared by the routers.                                       *)
(***************************************************************************)
\* requireRole: the status it answers with, 0 when it calls next()
requireRole(allowedRoles, actor) ==
    IF actor \notin DOMAIN users THEN 404
    ELSE IF users[actor].role \notin allowedRoles THEN 403
    ELSE 0

requireRoleMessage(status) ==
    IF status = 404 THEN "User not found" ELSE "Insufficient permissions"

(***************************************************************************)
(* Grading: config/gradeUtils and config/subjectsConfig, then the          *)
(* pre('save') hook of resultSchema.                                       *)
(***************************************************************************)
subjectsConfig ==
    [c \in {"8", "9", "10"} |->
        IF c = "9" THEN <<"Bangla", "English", "Math">>
        ELSE IF c = "8" THEN <<"Bangla">> ELSE <<"Math">>]

\* a percentage in hundredths of a percent -> letter and gpa in hundredths
getGrade(percentage) ==
    IF percentage >= 8000 THEN [grade |-> "A+", gpa |-> 500]
    ELSE IF percentage >= 7000 THEN [grade |-> "A", gpa |-> 400]
    ELSE IF percentage >= 6000 THEN [grade |-> "A-", gpa |-> 350]
    ELSE IF percentage >= 5000 THEN [grade |-> "B", gpa |-> 300]
    ELSE IF percentage >= 4000 THEN [grade |-> "C", gpa |-> 200]
    ELSE IF percentage >= 3300 THEN [grade |-> "D", gpa |-> 100]
    ELSE [grade |-> "F", gpa |-> 0]

RawMark(subject, mcqScore, mcqTotal, cqScore, cqTotal) ==
    [subject |-> subject, mcqScore |-> mcqScore, mcqTotal |-> mcqTotal,
     cqScore |-> cqScore, cqTotal |-> cqTotal]

subjectTotalScore(m) == m.mcqScore + m.cqScore

subjectTotalMarks(m) == m.mcqTotal + m.cqTotal

\* the comparison with the cq score left out of the left-hand side
ScoreExceeds_NoCq(m) == m.mcqScore > subjectTotalMarks(m)

\* if (subjectTotalScore > subjectTotalMarks)
ScoreExceeds(m) == subjectTotalScore(m) > subjectTotalMarks(m)

Percentage(m) ==
    IF subjectTotalMarks(m) > 0
    THEN (subjectTotalScore(m) * 10000) \div subjectTotalMarks(m)
    ELSE 0

\* what the map callback returns for an entry that passes the check
GradedMark(m) ==
    [subject |-> m.subject, mcqScore |-> m.mcqScore, mcqTotal |-> m.mcqTotal,
     cqScore |-> m.cqScore, cqTotal |-> m.cqTotal,
     totalScore |-> subjectTotalScore(m),
     grade |-> getGrade(Percentage(m)).grade,
     gpa |-> getGrade(Percentage(m)).gpa]

\* the callback's value for a failing entry is the value of next(...): undefined
Undefined == [undefined |-> TRUE]

RECURSIVE SumOver(_, _, _)
SumOver(F(_), seq, i) ==
    IF i > Len(seq) THEN 0 ELSE F(seq[i]) + SumOver(F, seq, i + 1)

\* the mean cut off after two decimals instead of rounded
RoundedMean_Truncated(gpaSum, subjectCount) == gpaSum \div subjectCount

\* parseFloat((gpaSum / subjectCount).toFixed(2)), in hundredths
RoundedMean(gpaSum, subjectCount) ==
    (2 * gpaSum + subjectCount) \div (2 * subjectCount)

\* The hook on a document with these marks: the calls it makes to next, in
\* order, and the document it leaves in memory.
resultPreSave(doc) ==
    IF Len(doc.marks) = 0
    THEN [calls |-> <<"error">>, doc |-> doc]
    ELSE
      LET marks == doc.marks
          passed == SelectSeq(marks, LAMBDA m : ~ScoreExceeds(m))
          failed == SelectSeq(marks, LAMBDA m : ScoreExceeds(m))
          mapped == [i \in 1..Len(marks) |->
                        IF ScoreExceeds(marks[i]) THEN Undefined
                        ELSE GradedMark(marks[i])]
          McqOf(m) == m.mcqScore
          CqOf(m) == m.cqScore
          GpaOf(m) == GradedMark(m).gpa
          gpaSum == SumOver(GpaOf, passed, 1)
          subjectCount == Len(passed)
      IN  [calls |-> [i \in 1..Len(failed) |-> "error"] \o <<"ok">>,
           doc |-> [doc EXCEPT
                      !.marks = mapped,
                      !.totalMcqMarks = SumOver(McqOf, passed, 1),
                      !.totalCqMarks = SumOver(CqOf, passed, 1),
                      !.totalMarks = SumOver(subjectTotalScore, passed, 1),
                      !.averageGPA = IF subjectCount > 0
                                     THEN RoundedMean(gpaSum, subjectCount)
                                     ELSE 0]]

\* schema validation, which Mongoose runs before the pre('save') hooks
resultValidate(doc) ==
    /\ doc.semester \in {"1st", "2nd", "3rd"}
    /\ doc.student # NoId
    /\ \A i \in 1..Len(doc.marks) :
          /\ doc.marks[i].mcqScore >= 0
          /\ doc.marks[i].mcqTotal >= 0
          /\ doc.marks[i].cqScore >= 0
          /\ doc.marks[i].cqTotal >= 0

\* new Result({...}): the schema defaults of the aggregates
newResult(student, class, semester, examType, marks) ==
    [student |-> student, class |-> class, semester |-> semester,
     examType |-> examType, marks |-> marks,
     totalMcqMarks |-> 0, totalCqMarks |-> 0, totalMarks |-> 0, averageGPA |-> 0]

\* doc.save(): Mongoose settles the save on the hook's first call to next and
\* ignores the later ones.  The value is the collection after the save and
\* the message of the error the save rejects with (<<>> when it resolves).
resultSaveError(doc) ==
    LET marks == doc.marks
        failed == SelectSeq(marks, LAMBDA m : ScoreExceeds(m))
    IN  IF ~resultValidate(doc) THEN <<"Result validation failed">>
        ELSE IF Len(marks) = 0 THEN <<"Marks array cannot be empty">>
        ELSE <<"Score exceeds total marks for subject", failed[1].subject>>

resultSave(doc, coll) ==
    LET r == resultPreSave(doc)
    IN  IF resultValidate(doc) /\ r.calls[1] = "ok"
        THEN [coll |-> Append(coll, r.doc), error |-> <<>>]
        ELSE [coll |-> coll, error |-> resultSaveError(doc)]

(***************************************************************************)
(* Result routes (result router and POST /result of the students router). *)
(***************************************************************************)
\* what a request body may carry for one subject
Scores == 0..MaxScore

\* marks[subject] is missing from the body: marks[subject] || {}
Absent == [absent |-> TRUE]

\* a paper's total: 0 when the channel has no paper, else its full marks
Totals == {0, MaxScore}

SingleBodyMarks == [score : Scores, total : Totals]

CombinedBodyMarks ==
    [mcqScore : Scores, mcqTotal : Totals, cqScore : Scores, cqTotal : Totals]
        \cup {Absent}

ClassKeys == {"8", "9", "10", "11"}

\* class keys of the combined submissions the model enumerates
CombinedClassKeys == {"8", "10", "11"}

SemesterInputs == {"1st", "4th"}

GradeActors == {SeedIds.super, SeedIds.teacher1, SeedIds.student1}

\* the submit routes admit the three roles alike: one of them, and a student
SubmitActors == {SeedIds.teacher1, SeedIds.student1}

StudentIdInputs == {SeedIds.student1, SeedIds.nobody}

BodySubjects(classKey) ==
    IF classKey \in DOMAIN subjectsConfig
    THEN {subjectsConfig[classKey][i] : i \in 1..Len(subjectsConfig[classKey])}
    ELSE {}

formatMcq(validSubjects, marks) ==
    [i \in 1..Len(validSubjects) |->
        LET subjectMarks == marks[validSubjects[i]]
        IN  IF subjectMarks = Absent THEN RawMark(validSubjects[i], 0, 0, 0, 0)
            ELSE RawMark(validSubjects[i], subjectMarks.score, subjectMarks.total, 0, 0)]

formatCq(validSubjects, marks) ==
    [i \in 1..Len(validSubjects) |->
        LET subjectMarks == marks[validSubjects[i]]
        IN  IF subjectMarks = Absent THEN RawMark(validSubjects[i], 0, 0, 0, 0)
            ELSE RawMark(validSubjects[i], 0, 0, subjectMarks.score, subjectMarks.total)]

formatCombined(validSubjects, marks) ==
    [i \in 1..Len(validSubjects) |->
        LET subjectMarks == marks[validSubjects[i]]
        IN  IF subjectMarks = Absent THEN RawMark(validSubjects[i], 0, 0, 0, 0)
            ELSE RawMark(validSubjects[i], subjectMarks.mcqScore, subjectMarks.mcqTotal,
                         subjectMarks.cqScore, subjectMarks.cqTotal)]

\* The body the three submit handlers share, after authenticateToken: the
\* role gate, the student lookup, the class lookup, the save and its catch.
\* formatted is the handler's formattedMarks (computed only for a valid class).
submittedMessage(examType) ==
    IF examType = "mcq" THEN "MCQ result submitted successfully"
    ELSE IF examType = "cq" THEN "CQ result submitted successfully"
    ELSE "Combined result submitted successfully"

submitResult(op, examType, actor, studentId, classKey, semester, formatted) ==
    LET gate == requireRole({"teacher", "admin", "super_admin"}, actor)
        saved == resultSave(newResult(studentId, classKey, semester, examType, formatted),
                            results)
    IN  /\ IF gate # 0
           THEN /\ resp' = Reply(op, gate, requireRoleMessage(gate))
                /\ results' = results
           ELSE IF studentId \notin DOMAIN students
           THEN /\ resp' = Reply(op, 404, "Student not found")
                /\ results' = results
           ELSE IF classKey \notin DOMAIN subjectsConfig
           THEN /\ resp' = Reply(op, 400, "Invalid class")
                /\ results' = results
           ELSE IF saved.error # <<>>
           THEN /\ resp' = ReplyLogged(op, 500, "Server error", saved.error)
                /\ results' = results
           ELSE /\ resp' = Reply(op, 201, submittedMessage(examType))
                /\ results' = saved.coll
        /\ UNCHANGED <<users, students, nextUid, nextSid, setupInFlight,
                       inflight, nextToken, now, dbVars>>

SubmitMcq(actor, studentId, classKey, semester, marks) ==
    submitResult("POST /submit/mcq", "mcq", actor, studentId, classKey, semester,
                 IF classKey \in DOMAIN subjectsConfig
                 THEN formatMcq(subjectsConfig[classKey], marks) ELSE <<>>)

SubmitCq(actor, studentId, classKey, semester, marks) ==
    submitResult("POST /submit/cq", "cq", actor, studentId, classKey, semester,
                 IF classKey \in DOMAIN subjectsConfig
                 THEN formatCq(subjectsConfig[classKey], marks) ELSE <<>>)

SubmitCombined(actor, studentId, classKey, semester, marks) ==
    submitResult("POST /submit/combined", "combined", actor, studentId, classKey,
                 semester,
                 IF classKey \in DOMAIN subjectsConfig
                 THEN formatCombined(subjectsConfig[classKey], marks) ELSE <<>>)

\* POST /result: the marks it builds carry only {subject, score}; score is no
\* path of the schema, so every entry is saved with the schema defaults (0).
\* The handler has no try/catch: a rejected save leaves the request unanswered.
PostResult(actor, studentId, classNumber, semester) ==
    LET gate == requireRole({"admin", "teacher"}, actor)
        subjects == subjectsConfig[classNumber]
        marks == [i \in 1..Len(subjects) |-> RawMark(subjects[i], 0, 0, 0, 0)]
        saved == resultSave(newResult(studentId, classNumber, semester, "combined", marks),
                            results)
    IN  /\ IF gate # 0
           THEN /\ resp' = Reply("POST /result", gate, requireRoleMessage(gate))
                /\ results' = results
           ELSE IF classNumber \notin DOMAIN subjectsConfig
           THEN /\ resp' = Reply("POST /result", 400, "Invalid class number")
                /\ results' = results
           ELSE IF saved.error # <<>>
           THEN /\ resp' = ReplyLogged("POST /result", 0, "", saved.error)
                /\ results' = results
           ELSE /\ resp' = Reply("POST /result", 201, "Result created successfully")
                /\ results' = saved.coll
        /\ UNCHANGED <<users, students, nextUid, nextSid, setupInFlight,
                       inflight, nextToken, now, dbVars>>

InitGrade ==
    /\ users = SeedUsers
    /\ students = SeedStudents
    /\ results = <<>>
    /\ resp = NoResp
    /\ nextUid = 6
    /\ nextSid = 102
    /\ setupInFlight = 0
    /\ inflight = NoRequests
    /\ nextToken = 1
    /\ now = 0
    /\ Connected

\* The bodies enumerated for a request: every marks object when the handler
\* gets as far as grading them, one marks object when it answers before.
ReachesGrading(actor, studentId, classKey, semester) ==
    /\ requireRole({"teacher", "admin", "super_admin"}, actor) = 0
    /\ studentId \in DOMAIN students
    /\ classKey \in DOMAIN subjectsConfig
    /\ semester \in {"1st", "2nd", "3rd"}

MarksInputs(perSubject, actor, studentId, classKey, semester) ==
    IF ReachesGrading(actor, studentId, classKey, semester)
    THEN [BodySubjects(classKey) -> perSubject]
    ELSE {[s \in BodySubjects(classKey) |-> CHOOSE m \in perSubject : TRUE]}

NextGrade ==
  /\ Len(results) < MaxResults
  /\
    \/ \E actor \in SubmitActors, studentId \in StudentIdInputs, classKey \in ClassKeys,
          semester \in SemesterInputs :
          \E marks \in MarksInputs(SingleBodyMarks, actor, studentId, classKey, semester) :
             SubmitMcq(actor, studentId, classKey, semester, marks)
    \/ \E actor \in SubmitActors, studentId \in StudentIdInputs, classKey \in ClassKeys,
          semester \in SemesterInputs :
          \E marks \in MarksInputs(SingleBodyMarks, actor, studentId, classKey, semester) :
             SubmitCq(actor, studentId, classKey, semester, marks)
    \/ \E actor \in SubmitActors, studentId \in StudentIdInputs,
          classKey \in CombinedClassKeys, semester \in SemesterInputs :
          \E marks \in MarksInputs(CombinedBodyMarks, actor, studentId, classKey, semester) :
             SubmitCombined(actor, studentId, classKey, semester, marks)
    \/ \E actor \in GradeActors, studentId \in StudentIdInputs, classNumber \in ClassKeys,
          semester \in SemesterInputs :
          PostResult(actor, studentId, classNumber, semester)

SpecGrade == InitGrade /\ [][NextGrade]_vars

(***************************************************************************)
(* Account routes: /setup-super-admin, /admin/create, /teacher/create of   *)
(* the signin router; PUT and DELETE /user/:id of the update router.       *)
(***************************************************************************)
NoUsers == [u \in {} |-> UserDoc("teacher", NoId, {}, "n0", NoCode)]

NoStudents == [s \in {} |-> StudentDoc("n0", "u1", "h0", 1, "9", "A", NoId)]

\* ids a token may carry: every id ever given to a User document
IssuedUserIds == 1..(nextUid - 1)

\* User.findOne({ role: 'super_admin' })
SuperAdmins(coll) == {u \in DOMAIN coll : coll[u].role = "super_admin"}

\* the adminCode values stored in the collection
AdminCodes(coll) == {coll[u].adminCode : u \in DOMAIN coll} \ {NoCode}

\* User.findOne({ adminCode: /^prefix/ }, ..., { sort: { adminCode: -1 } }):
\* the code that sorts last as a string
latestAdmin(codes) == CHOOSE c \in codes : \A d \in codes : d = c \/ StringLess(d, c)

\* prefix + (parseInt of the last three characters of that code + 1), padded
\* to three digits; sequence 1 when no code has the prefix
generateAdminCode(coll) ==
    LET codes == {c \in AdminCodes(coll) : startsWith(c, YYMM)}
    IN  IF codes = {} THEN YYMM \o padStart(toString(1), 3)
        ELSE YYMM \o padStart(toString(parseInt(slice(latestAdmin(codes), 3)) + 1), 3)

\* POST /setup-super-admin up to its existence check and field validation;
\* the request then awaits bcrypt and the save.
SetupCheck ==
    /\ setupInFlight < MaxSetupInFlight
    /\ IF SuperAdmins(users) # {}
       THEN /\ resp' = Reply("POST /setup-super-admin", 400, "Super admin already exists")
            /\ UNCHANGED setupInFlight
       ELSE /\ setupInFlight' = setupInFlight + 1
            /\ UNCHANGED resp
    /\ UNCHANGED <<users, students, results, nextUid, nextSid,
                   inflight, nextToken, now, dbVars>>

\* the save of a request that passed SetupCheck; emailTaken: the body's email
\* is that of a document stored meanwhile (unique index on email)
SetupSave(emailTaken) ==
    /\ setupInFlight > 0
    /\ nextUid <= MaxUsers
    /\ emailTaken => DOMAIN users # {}
    /\ setupInFlight' = setupInFlight - 1
    /\ IF emailTaken
       THEN /\ resp' = ReplyLogged("POST /setup-super-admin", 400, "User already exists",
                                   <<"E11000 duplicate key">>)
            /\ UNCHANGED <<users, nextUid>>
       ELSE /\ users' = (nextUid :> UserDoc("super_admin", NoId, {}, "n0", NoCode)) @@ users
            /\ nextUid' = nextUid + 1
            /\ resp' = Reply("POST /setup-super-admin", 201, "Super admin created successfully")
    /\ UNCHANGED <<students, results, nextSid,
                   inflight, nextToken, now, dbVars>>

\* POST /admin/create up to the code it generates; the request then awaits
\* bcrypt and the save
CreateAdminScan(actor) ==
    LET gate == requireRole({"super_admin"}, actor)
    IN  /\ BagCardinality(inflight) < MaxInFlight
        /\ IF gate # 0
           THEN /\ resp' = Reply("POST /admin/create", gate, requireRoleMessage(gate))
                /\ UNCHANGED inflight
           ELSE /\ inflight' = inflight (+)
                        SetToBag({[op |-> "POST /admin/create", createdBy |-> actor,
                                   adminCode |-> generateAdminCode(users)]})
                /\ UNCHANGED resp
        /\ UNCHANGED <<users, students, results, nextUid, nextSid, setupInFlight,
                       nextToken, now, dbVars>>

CreateAdminSave_NoIndex(r) ==
    /\ r \in BagToSet(inflight)
    /\ r.op = "POST /admin/create"
    /\ inflight' = Answered(r)
    /\ users' = (nextUid :> UserDoc("admin", r.createdBy, {}, "n0", r.adminCode)) @@ users
    /\ nextUid' = nextUid + 1
    /\ resp' = Reply("POST /admin/create", 201, "Admin created successfully")
    /\ UNCHANGED <<students, results, nextSid, setupInFlight, nextToken, now, dbVars>>

\* the save of a request that passed CreateAdminScan: the unique index on
\* adminCode refuses a code that a document stored meanwhile carries
CreateAdminSave(r) ==
    /\ r \in BagToSet(inflight)
    /\ r.op = "POST /admin/create"
    /\ inflight' = Answered(r)
    /\ IF r.adminCode \in AdminCodes(users)
       THEN /\ resp' = ReplyLogged("POST /admin/create", 400,
                                   "Admin code already exists. Please try again.",
                                   <<"Create admin error:">>)
            /\ UNCHANGED <<users, nextUid>>
       ELSE /\ users' = (nextUid :> UserDoc("admin", r.createdBy, {}, "n0",
                                             r.adminCode)) @@ users
            /\ nextUid' = nextUid + 1
            /\ resp' = Reply("POST /admin/create", 201, "Admin created successfully")
    /\ UNCHANGED <<students, results, nextSid, setupInFlight, nextToken, now, dbVars>>

CreateTeacher(actor, assignedClasses) ==
    LET gate == requireRole({"admin", "super_admin"}, actor)
    IN  /\ nextUid <= MaxUsers
        /\ IF gate # 0
           THEN /\ resp' = Reply("POST /teacher/create", gate, requireRoleMessage(gate))
                /\ UNCHANGED <<users, nextUid>>
           ELSE /\ users' = (nextUid :> UserDoc("teacher", actor, assignedClasses, "n0",
                                                 NoCode)) @@ users
                /\ nextUid' = nextUid + 1
                /\ resp' = Reply("POST /teacher/create", 201, "Teacher created successfully")
        /\ UNCHANGED <<students, results, nextSid, setupInFlight,
                       inflight, nextToken, now, dbVars>>

\* A PUT /user/:id body.  "" and NoCode are fields the body leaves out (they
\* are falsy); hasClasses tells whether assignedClasses is present.
UserBody(firstName, role, adminCode, hasClasses, assignedClasses) ==
    [firstName |-> firstName, role |-> role, adminCode |-> adminCode,
     hasClasses |-> hasClasses, assignedClasses |-> assignedClasses]

AssignedInputs == {{}, {<<"9", "A">>}}

UserBodies ==
    {UserBody("", "", NoCode, FALSE, {}), UserBody("", "", AdminCode(1), FALSE, {}),
     UserBody("", "admin", AdminCode(1), FALSE, {})}
    \cup {UserBody("", r, NoCode, FALSE, {}) : r \in Roles \cup {"student"}}
    \cup {UserBody("", "", NoCode, TRUE, a) : a \in AssignedInputs}

\* if (currentUser.role !== 'super_admin') { ... }: "ok", "forbidden-admin",
\* "forbidden-teacher", or "throws" when createdBy is null and .toString() is
\* called on it
putUserPermission(currentUser, actor, user, id) ==
    IF currentUser.role = "super_admin" THEN "ok"
    ELSE IF currentUser.role = "admin" /\ user.createdBy = NoId THEN "throws"
    ELSE IF currentUser.role = "admin" /\ user.createdBy # actor THEN "forbidden-admin"
    ELSE IF currentUser.role = "teacher" /\ id # actor THEN "forbidden-teacher"
    ELSE "ok"

\* assignments that take role and adminCode from any caller
putUserAssign_AnyCaller(currentUser, user, body) ==
    LET named == IF body.firstName # "" THEN [user EXCEPT !.firstName = body.firstName]
                 ELSE user
        roled == IF body.role \in Roles
                 THEN [named EXCEPT !.role = body.role] ELSE named
        coded == IF body.adminCode # NoCode /\ roled.role = "admin"
                 THEN [roled EXCEPT !.adminCode = body.adminCode] ELSE roled
    IN  IF body.hasClasses /\ currentUser.role \in {"super_admin", "admin"}
        THEN [coded EXCEPT !.assignedClasses = body.assignedClasses] ELSE coded

\* the document after the handler's assignments, before the save
putUserAssign(currentUser, user, body) ==
    LET named == IF body.firstName # "" THEN [user EXCEPT !.firstName = body.firstName]
                 ELSE user
        roled == IF currentUser.role = "super_admin" /\ body.role \in Roles
                 THEN [named EXCEPT !.role = body.role] ELSE named
        coded == IF currentUser.role = "super_admin" /\ body.adminCode # NoCode
                    /\ roled.role = "admin"
                 THEN [roled EXCEPT !.adminCode = body.adminCode] ELSE roled
    IN  IF body.hasClasses /\ currentUser.role \in {"super_admin", "admin"}
        THEN [coded EXCEPT !.assignedClasses = body.assignedClasses] ELSE coded

\* const existingAdmin = await User.findOne({ adminCode }) ... 400
adminCodeInUse(currentUser, user, id, body) ==
    /\ currentUser.role = "super_admin"
    /\ body.adminCode # NoCode
    /\ (IF body.role \in Roles THEN body.role ELSE user.role) = "admin"
    /\ \E u \in DOMAIN users : u # id /\ users[u].adminCode = body.adminCode

PutUser(actor, id, body) ==
    LET op == "PUT /user/:id"
        permission == putUserPermission(users[actor], actor, users[id], id)
    IN  /\ IF id \notin DOMAIN users
           THEN resp' = Reply(op, 404, "User not found") /\ UNCHANGED users
           ELSE IF actor \notin DOMAIN users
           THEN resp' = Reply(op, 404, "Current user not found") /\ UNCHANGED users
           ELSE IF permission = "throws"
           THEN /\ resp' = ReplyLogged(op, 500, "Server error",
                                       <<"Cannot read properties of null">>)
                /\ UNCHANGED users
           ELSE IF permission = "forbidden-admin"
           THEN resp' = Reply(op, 403, "Not authorized to update this user")
                /\ UNCHANGED users
           ELSE IF permission = "forbidden-teacher"
           THEN resp' = Reply(op, 403, "Not authorized to update other users")
                /\ UNCHANGED users
           ELSE IF adminCodeInUse(users[actor], users[id], id, body)
           THEN resp' = Reply(op, 400, "Admin code already in use") /\ UNCHANGED users
           ELSE /\ users' = [users EXCEPT ![id] = putUserAssign(users[actor], users[id], body)]
                /\ resp' = Reply(op, 200, "User updated successfully")
        /\ UNCHANGED <<students, results, nextUid, nextSid, setupInFlight,
                       inflight, nextToken, now, dbVars>>

\* if (currentUser.role !== 'super_admin' && user.createdBy.toString() !== req.user.id)
deleteUserPermission(currentUser, actor, user) ==
    IF currentUser.role = "super_admin" THEN "ok"
    ELSE IF user.createdBy = NoId THEN "throws"
    ELSE IF user.createdBy # actor THEN "forbidden"
    ELSE "ok"

\* if (user.role === 'super_admin')
deleteUserIsProtected(user) == user.role = "super_admin"

Without(coll, id) == [x \in DOMAIN coll \ {id} |-> coll[x]]

DeleteUser(actor, id) ==
    LET op == "DELETE /user/:id"
        gate == requireRole({"super_admin", "admin"}, actor)
        permission == deleteUserPermission(users[actor], actor, users[id])
    IN  /\ IF gate # 0
           THEN resp' = Reply(op, gate, requireRoleMessage(gate)) /\ UNCHANGED users
           ELSE IF id \notin DOMAIN users
           THEN resp' = Reply(op, 404, "User not found") /\ UNCHANGED users
           ELSE IF permission = "throws"
           THEN /\ resp' = ReplyLogged(op, 500, "Server error",
                                       <<"Cannot read properties of null">>)
                /\ UNCHANGED users
           ELSE IF permission = "forbidden"
           THEN resp' = Reply(op, 403, "Not authorized to delete this user")
                /\ UNCHANGED users
           ELSE IF deleteUserIsProtected(users[id])
           THEN resp' = Reply(op, 403, "Super admin cannot be deleted") /\ UNCHANGED users
           ELSE /\ users' = Without(users, id)
                /\ resp' = Reply(op, 200, "User deleted successfully")
        /\ UNCHANGED <<students, results, nextUid, nextSid, setupInFlight,
                       inflight, nextToken, now, dbVars>>

InitUser ==
    /\ users = NoUsers
    /\ students = NoStudents
    /\ results = <<>>
    /\ resp = NoResp
    /\ nextUid = 1
    /\ nextSid = 101
    /\ setupInFlight = 0
    /\ inflight = NoRequests
    /\ nextToken = 1
    /\ now = 0
    /\ Connected

NextUser ==
    \/ SetupCheck
    \/ \E emailTaken \in BOOLEAN : SetupSave(emailTaken)
    \/ \E actor \in IssuedUserIds :
          /\ inflight = NoRequests
          /\ nextUid <= MaxUsers
          /\ CreateAdminScan(actor)
    \/ \E r \in BagToSet(inflight) : CreateAdminSave(r)
    \/ \E actor \in IssuedUserIds, assignedClasses \in AssignedInputs :
          CreateTeacher(actor, assignedClasses)
    \/ \E actor \in IssuedUserIds, id \in IssuedUserIds, body \in UserBodies :
          PutUser(actor, id, body)
    \/ \E actor \in IssuedUserIds, id \in IssuedUserIds : DeleteUser(actor, id)

SpecUser == InitUser /\ [][NextUser]_vars

(***************************************************************************)
(* Student routes.  The routers are mounted on the same path in the order  *)
(* signin, students, dashboard, result, update, payments.  Every route of  *)
(* these routers ends its chain with a response (requireRole answers 403   *)
(* or 404 itself, the handlers answer on every path), so a request is      *)
(* served by the first router in mount order that registers its route; a   *)
(* later router's handler for the same route never runs.                   *)
(***************************************************************************)
RouterOrder == <<"signin", "students", "dashboard", "result", "update", "payments">>

\* the routes each router registers, among those modelled here
RouterRoutes ==
    [signin |-> {"POST /setup-super-admin", "POST /admin/create", "POST /teacher/create",
                 "POST /student/create"},
     students |-> {"POST /student/create", "POST /result", "PUT /student/:id",
                   "DELETE /student/:id"},
     dashboard |-> {},
     result |-> {"POST /submit/mcq", "POST /submit/cq", "POST /submit/combined"},
     update |-> {"PUT /user/:id", "PUT /student/:id", "DELETE /user/:id",
                 "DELETE /student/:id"},
     payments |-> {}]

Handling(route) ==
    LET registers(i) == route \in RouterRoutes[RouterOrder[i]]
        first == CHOOSE i \in 1..Len(RouterOrder) :
                    registers(i) /\ \A j \in 1..(i - 1) : ~registers(j)
    IN  RouterOrder[first]

\* password.length < 6
MinPasswordLength == 6

passwordLength(password) == IF password = "abc" THEN 3 ELSE 7

\* bcrypt.hash(password, salt), as a name for the hash of each password
bcryptHash(password) ==
    IF password = "secret0" THEN "h0" ELSE IF password = "secret1" THEN "h1" ELSE "h2"

\* A body of the student routes.  "" and 0 are fields the body leaves out
\* (both are falsy); NoSection is a body without the section key.
NoSection == "undefined"

StudentBody(name, userName, password, roll, class, section) ==
    [name |-> name, userName |-> userName, password |-> password, roll |-> roll,
     class |-> class, section |-> section]

Truthy(section) == section # NoSection /\ section # ""

\* Student.findOne({ userName })
userNameTaken(coll, userName, except) ==
    \E s \in DOMAIN coll : s # except /\ coll[s].userName = userName

\* Student.findOne({ class, section, roll })
rollTaken(coll, class, section, roll, except) ==
    \E s \in DOMAIN coll :
        /\ s # except
        /\ coll[s].class = class /\ coll[s].section = section /\ coll[s].roll = roll

\* cls => cls.class === student.class && cls.section === student.section
isAssigned(currentUser, student) ==
    <<student.class, student.section>> \in currentUser.assignedClasses

\* POST /student/create of the signin router
signinCreateStudent(actor, body) ==
    LET op == "POST /student/create"
        gate == requireRole({"admin", "super_admin"}, actor)
    IN  IF gate # 0
        THEN resp' = Reply(op, gate, requireRoleMessage(gate))
             /\ UNCHANGED <<students, nextSid>>
        ELSE IF body.name = "" \/ body.userName = "" \/ body.password = ""
                \/ body.roll = 0 \/ body.class = "" \/ ~Truthy(body.section)
        THEN resp' = Reply(op, 400, "All fields are required")
             /\ UNCHANGED <<students, nextSid>>
        ELSE IF passwordLength(body.password) < MinPasswordLength
        THEN resp' = Reply(op, 400, "Password must be at least 6 characters")
             /\ UNCHANGED <<students, nextSid>>
        ELSE IF userNameTaken(students, body.userName, NoId)
        THEN resp' = Reply(op, 400, "Username already taken")
             /\ UNCHANGED <<students, nextSid>>
        ELSE IF rollTaken(students, body.class, body.section, body.roll, NoId)
        THEN resp' = Reply(op, 400, "Roll already exists in Class")
             /\ UNCHANGED <<students, nextSid>>
        ELSE /\ students' = (nextSid :> studentPreSave(
                                [StudentDoc(body.name, body.userName,
                                            bcryptHash(body.password), body.roll,
                                            body.class, body.section, actor)
                                 EXCEPT !.createdAt = now])) @@ students
             /\ nextSid' = nextSid + 1
             /\ resp' = Reply(op, 201, "Student created successfully")

\* POST /student/create of the students router
studentsCreateStudent(actor, body) ==
    LET op == "POST /student/create"
        gate == requireRole({"super_admin", "admin", "teacher"}, actor)
    IN  IF gate # 0
        THEN resp' = Reply(op, gate, requireRoleMessage(gate))
             /\ UNCHANGED <<students, nextSid>>
        ELSE IF body.name = "" \/ body.userName = "" \/ body.password = ""
                \/ body.roll = 0 \/ body.class = ""
        THEN resp' = Reply(op, 400, "All fields are required")
             /\ UNCHANGED <<students, nextSid>>
        ELSE IF passwordLength(body.password) < MinPasswordLength
        THEN resp' = Reply(op, 400, "Password must be at least 6 characters")
             /\ UNCHANGED <<students, nextSid>>
        ELSE IF userNameTaken(students, body.userName, NoId)
        THEN resp' = Reply(op, 400, "Student already exists")
             /\ UNCHANGED <<students, nextSid>>
        ELSE IF ~Truthy(body.section)
        THEN \* section is required by the schema: the save is rejected
             resp' = ReplyLogged(op, 500, "Server error", <<"Student validation failed">>)
             /\ UNCHANGED <<students, nextSid>>
        ELSE /\ students' = (nextSid :> studentPreSave(
                                [StudentDoc(body.name, body.userName,
                                            bcryptHash(body.password), body.roll,
                                            body.class, body.section, actor)
                                 EXCEPT !.createdAt = now])) @@ students
             /\ nextSid' = nextSid + 1
             /\ resp' = Reply(op, 201, "Student created successfully")

CreateStudent(actor, body) ==
    /\ nextSid - SeedIds.student1 < MaxStudents
    /\ IF Handling("POST /student/create") = "signin"
       THEN signinCreateStudent(actor, body)
       ELSE studentsCreateStudent(actor, body)
    /\ UNCHANGED <<users, results, nextUid, setupInFlight,
                   inflight, nextToken, now, dbVars>>

\* the assignments of the students router's PUT /student/:id, before the save
studentsPutAssign(student, body) ==
    LET named == IF body.name # "" THEN [student EXCEPT !.name = body.name] ELSE student
        usered == IF body.userName # "" THEN [named EXCEPT !.userName = body.userName]
                  ELSE named
        rolled == IF body.roll # 0 THEN [usered EXCEPT !.roll = body.roll] ELSE usered
        classed == IF body.class # "" THEN [rolled EXCEPT !.class = body.class] ELSE rolled
        sectioned == IF body.section # NoSection
                     THEN [classed EXCEPT !.section = body.section] ELSE classed
    IN  IF body.password # ""
        THEN [sectioned EXCEPT !.password = bcryptHash(body.password)] ELSE sectioned

\* PUT /student/:id of the students router
studentsPutStudent(actor, id, body) ==
    LET op == "PUT /student/:id"
        gate == requireRole({"super_admin", "admin", "teacher"}, actor)
        assigned == studentsPutAssign(students[id], body)
    IN  IF gate # 0
        THEN resp' = Reply(op, gate, requireRoleMessage(gate)) /\ UNCHANGED students
        ELSE IF id \notin DOMAIN students
        THEN resp' = Reply(op, 404, "Student not found") /\ UNCHANGED students
        ELSE IF body.password # "" /\ passwordLength(body.password) < MinPasswordLength
        THEN resp' = Reply(op, 400, "Password must be at least 6 characters")
             /\ UNCHANGED students
        ELSE IF assigned.section = ""
        THEN resp' = ReplyLogged(op, 500, "Server error", <<"Student validation failed">>)
             /\ UNCHANGED students
        ELSE IF userNameTaken(students, assigned.userName, id)
        THEN resp' = ReplyLogged(op, 400, "Username already exists",
                                 <<"E11000 duplicate key">>)
             /\ UNCHANGED students
        ELSE /\ students' = [students EXCEPT ![id] = studentPreSave(assigned)]
             /\ resp' = Reply(op, 200, "Student updated successfully")

\* the role of the acting User document, "student" when the token is that of
\* the Student document itself (currentUser is null)
updateActorRole(actor) == IF actor \in DOMAIN users THEN users[actor].role ELSE "student"

\* the assignments of the update router's PUT /student/:id, before the save
updatePutAssign(role, student, body) ==
    LET usered == IF body.userName # "" THEN [student EXCEPT !.userName = body.userName]
                  ELSE student
        named == IF body.name # "" THEN [usered EXCEPT !.name = body.name] ELSE usered
        hashed == IF body.password # ""
                  THEN [named EXCEPT !.password = bcryptHash(body.password)] ELSE named
        byAdmin == role \in {"super_admin", "admin"}
        rolled == IF body.roll # 0 /\ byAdmin THEN [hashed EXCEPT !.roll = body.roll]
                  ELSE hashed
        classed == IF body.class # "" /\ byAdmin THEN [rolled EXCEPT !.class = body.class]
                   ELSE rolled
    IN  IF Truthy(body.section) /\ byAdmin
        THEN [classed EXCEPT !.section = body.section] ELSE classed

\* PUT /student/:id of the update router
updatePutStudent(actor, id, body) ==
    LET op == "PUT /student/:id"
        role == updateActorRole(actor)
        placed == body.userName # "" \/ body.class # "" \/ Truthy(body.section)
    IN  IF id \notin DOMAIN students
        THEN resp' = Reply(op, 404, "Student not found") /\ UNCHANGED students
        ELSE IF actor \notin DOMAIN users /\ (actor \notin DOMAIN students \/ actor # id)
        THEN resp' = Reply(op, 404, "Current user not found") /\ UNCHANGED students
        ELSE IF role = "teacher" /\ ~isAssigned(users[actor], students[id])
        THEN resp' = Reply(op, 403, "Not authorized to update this student")
             /\ UNCHANGED students
        ELSE IF role = "teacher" /\ placed
        THEN resp' = Reply(op, 403, "Teachers can only update name or roll")
             /\ UNCHANGED students
        ELSE IF role = "student" /\ (body.roll # 0 \/ placed)
        THEN resp' = Reply(op, 403, "Students can only update name or password")
             /\ UNCHANGED students
        ELSE IF body.userName # "" /\ body.userName # students[id].userName
                /\ userNameTaken(students, body.userName, id)
        THEN resp' = Reply(op, 400, "Username already in use") /\ UNCHANGED students
        ELSE IF body.roll # 0 /\ body.class # "" /\ Truthy(body.section)
                /\ rollTaken(students, body.class, body.section, body.roll, id)
        THEN resp' = Reply(op, 400, "Roll number already exists in this class and section")
             /\ UNCHANGED students
        ELSE IF body.password # "" /\ passwordLength(body.password) < MinPasswordLength
        THEN resp' = Reply(op, 400, "Password must be at least 6 characters")
             /\ UNCHANGED students
        ELSE /\ students' = [students EXCEPT ![id] =
                                  studentPreSave(updatePutAssign(role, students[id], body))]
             /\ resp' = Reply(op, 200, "Student updated successfully")

PutStudent(actor, id, body) ==
    /\ IF Handling("PUT /student/:id") = "students"
       THEN studentsPutStudent(actor, id, body)
       ELSE updatePutStudent(actor, id, body)
    /\ UNCHANGED <<users, results, nextUid, nextSid, setupInFlight,
                   inflight, nextToken, now, dbVars>>

\* DELETE /student/:id of the students router
studentsDeleteStudent(actor, id) ==
    LET op == "DELETE /student/:id"
        gate == requireRole({"super_admin", "admin"}, actor)
    IN  IF gate # 0
        THEN resp' = Reply(op, gate, requireRoleMessage(gate)) /\ UNCHANGED students
        ELSE IF id \notin DOMAIN students
        THEN resp' = Reply(op, 404, "Student not found") /\ UNCHANGED students
        ELSE /\ students' = Without(students, id)
             /\ resp' = Reply(op, 200, "Student deleted successfully")

\* DELETE /student/:id of the update router
updateDeleteStudent(actor, id) ==
    LET op == "DELETE /student/:id"
    IN  IF id \notin DOMAIN students
        THEN resp' = Reply(op, 404, "Student not found") /\ UNCHANGED students
        ELSE IF actor \notin DOMAIN users
        THEN resp' = Reply(op, 403, "Not authorized to delete students")
             /\ UNCHANGED students
        ELSE IF \/ users[actor].role = "teacher" /\ ~isAssigned(users[actor], students[id])
                \/ users[actor].role = "admin" /\ students[id].createdBy # actor
        THEN resp' = Reply(op, 403, "Not authorized to delete this student")
             /\ UNCHANGED students
        ELSE /\ students' = Without(students, id)
             /\ resp' = Reply(op, 200, "Student deleted successfully")

DeleteStudent(actor, id) ==
    /\ IF Handling("DELETE /student/:id") = "students"
       THEN studentsDeleteStudent(actor, id)
       ELSE updateDeleteStudent(actor, id)
    /\ UNCHANGED <<users, results, nextUid, nextSid, setupInFlight,
                   inflight, nextToken, now, dbVars>>

\* request inputs of the student routes
StudentActors ==
    {SeedIds.super, SeedIds.admin1, SeedIds.admin2, SeedIds.teacher1}
    \cup SeedIds.student1..(nextSid - 1)

StudentIds == SeedIds.student1..(SeedIds.student1 + MaxStudents)

CreateBodies ==
    {StudentBody("n0", u, "secret0", r, "9", s) : u \in {"u1", "u2"}, r \in {1, 2},
                                                    s \in Sections}
    \cup {StudentBody("n0", "u1", "abc", 1, "9", "A"),
          StudentBody("n0", "u1", "secret0", 1, "9", NoSection)}

EmptyStudentBody == StudentBody("", "", "", 0, "", NoSection)

UpdateBodies ==
    {EmptyStudentBody,
     [EmptyStudentBody EXCEPT !.name = "n1"],
     [EmptyStudentBody EXCEPT !.userName = "u2"],
     [EmptyStudentBody EXCEPT !.password = "abc"],
     [EmptyStudentBody EXCEPT !.password = "secret1"],
     [EmptyStudentBody EXCEPT !.name = "n1", !.password = "secret1"],
     [EmptyStudentBody EXCEPT !.roll = 2],
     [EmptyStudentBody EXCEPT !.class = "10"],
     [EmptyStudentBody EXCEPT !.section = "B"],
     [EmptyStudentBody EXCEPT !.section = ""],
     [EmptyStudentBody EXCEPT !.roll = 2, !.class = "10", !.section = "B"]}

InitStudent ==
    /\ users = SeedUsers
    /\ students = NoStudents
    /\ results = <<>>
    /\ resp = NoResp
    /\ nextUid = 6
    /\ nextSid = SeedIds.student1
    /\ setupInFlight = 0
    /\ inflight = NoRequests
    /\ nextToken = 1
    /\ now = 0
    /\ Connected

NextStudent ==
    \/ \E actor \in StudentActors, body \in CreateBodies : CreateStudent(actor, body)
    \/ \E actor \in StudentActors, id \in StudentIds, body \in UpdateBodies :
          PutStudent(actor, id, body)
    \/ \E actor \in StudentActors, id \in StudentIds : DeleteStudent(actor, id)

SpecStudent == InitStudent /\ [][NextStudent]_vars

(***************************************************************************)
(* Claims on the grading pipeline (checked under SpecGrade).               *)
(***************************************************************************)
ExceedsLogged(r) ==
    /\ r.log # <<>>
    /\ r.log[1] = "Score exceeds total marks for subject"

\* every entry of every stored Result is a graded entry within its totals
C1_StoredWithinTotal ==
    \A i \in 1..Len(results) : \A j \in 1..Len(results[i].marks) :
        LET e == results[i].marks[j]
        IN  /\ "totalScore" \in DOMAIN e
            /\ e.totalScore <= e.mcqTotal + e.cqTotal
            /\ e.mcqScore + e.cqScore <= e.mcqTotal + e.cqTotal

\* C1: a submission with a subject whose mcqScore+cqScore exceeds
\* mcqTotal+cqTotal is answered with a failure and stores no Result; in every
\* reachable state every entry of every stored Result has
\* totalScore <= mcqTotal+cqTotal.
C1_ScoreWithinTotal ==
    /\ []C1_StoredWithinTotal
    /\ [][ExceedsLogged(resp') => (resp'.status = 500 /\ results' = results)]_vars

\* a submission was rejected for a score above its total and nothing is stored
C1_Witness ==
    /\ ExceedsLogged(resp)
    /\ resp.op = "POST /submit/combined"
    /\ resp.status = 500
    /\ results = <<>>

FieldSum(marks, field) ==
    LET Pick(m) == m[field] IN SumOver(Pick, marks, 1)

\* C2: the aggregates of every stored Result are functions of its marks:
\* totalMcqMarks, totalCqMarks and totalMarks are the sums of mcqScore,
\* cqScore and totalScore (so totalMarks = totalMcqMarks + totalCqMarks),
\* averageGPA is the mean of the entries' gpa rounded to two decimals, and
\* running the grading step on the stored document again changes nothing.
C2_AggregatesFromMarks ==
    \A i \in 1..Len(results) :
        LET r == results[i]
            n == Len(r.marks)
            gpaSum == FieldSum(r.marks, "gpa")
        IN  /\ n > 0
            /\ \A j \in 1..n : r.marks[j].totalScore = r.marks[j].mcqScore + r.marks[j].cqScore
            /\ r.totalMcqMarks = FieldSum(r.marks, "mcqScore")
            /\ r.totalCqMarks = FieldSum(r.marks, "cqScore")
            /\ r.totalMarks = FieldSum(r.marks, "totalScore")
            /\ r.totalMarks = r.totalMcqMarks + r.totalCqMarks
            /\ 2 * n * r.averageGPA <= 2 * gpaSum + n
            /\ 2 * n * r.averageGPA > 2 * gpaSum - n
            /\ resultPreSave(r) = [calls |-> <<"ok">>, doc |-> r]

\* a stored three-subject Result whose mean gpa had to be rounded up
C2_Witness ==
    /\ resp.status = 201
    /\ \E i \in 1..Len(results) :
          /\ Len(results[i].marks) = 3
          /\ 3 * results[i].averageGPA > FieldSum(results[i].marks, "gpa")
          /\ results[i].totalMarks > 0


(***************************************************************************)
(* Claims on the student routes                                            *)
(***************************************************************************)
\* a response that refuses the request (a 4xx answer), as opposed to a
\* success or a server failure
Denied(r) == r.status \in 400..499

StudentUnchanged(id) == id \in DOMAIN students' /\ students'[id] = students[id]

Teachers == {u \in DOMAIN users : users[u].role = "teacher"}

Admins == {u \in DOMAIN users : users[u].role = "admin"}

NameOnlyBody == [EmptyStudentBody EXCEPT !.name = "n1"]

\* C3: a PUT or DELETE on /student/:id by a teacher not assigned to the
\* student's class and section is denied and leaves the record unchanged, and
\* one by an assigned teacher is permitted.
C3_TeacherScopedToAssignedClasses ==
    [][\A actor \in Teachers, id \in DOMAIN students :
          IF isAssigned(users[actor], students[id])
          THEN /\ PutStudent(actor, id, NameOnlyBody) => resp'.status = 200
               /\ DeleteStudent(actor, id) => resp'.status = 200
          ELSE (\/ \E body \in UpdateBodies : PutStudent(actor, id, body)
                \/ DeleteStudent(actor, id))
               => (Denied(resp') /\ StudentUnchanged(id))]_vars

\* the body carries a field that places the student: userName, class or section
CarriesPlacement(body) == body.userName # "" \/ body.class # "" \/ Truthy(body.section)

\* C4: when a teacher assigned to the student's class updates the record, a
\* request carrying userName, class or section is denied with no change, a
\* name or roll supplied is applied, and no field other than name and roll
\* (in particular not the password hash) changes.
C4_TeacherSetsNameAndRollOnly ==
    [][\A actor \in Teachers, id \in DOMAIN students, body \in UpdateBodies :
          (isAssigned(users[actor], students[id]) /\ PutStudent(actor, id, body))
          => /\ CarriesPlacement(body) => (Denied(resp') /\ StudentUnchanged(id))
             /\ id \in DOMAIN students'
             /\ students'[id] = [students[id] EXCEPT !.name = students'[id].name,
                                                     !.roll = students'[id].roll]
             /\ (~CarriesPlacement(body) /\ body.password = "")
                => /\ body.name # "" => students'[id].name = body.name
                   /\ body.roll # 0 => students'[id].roll = body.roll]_vars

\* C5: through PUT /student/:id a student's name/password-only request on the
\* own record succeeds, a request carrying roll, class, section or userName is
\* denied with no change, and a student never modifies another student's
\* record.
C5_StudentSelfUpdate ==
    [][\A actor \in DOMAIN students, id \in DOMAIN students, body \in UpdateBodies :
          PutStudent(actor, id, body)
          => /\ (id = actor /\ body = NameOnlyBody)
                => (resp'.status = 200 /\ students'[id].name = body.name)
             /\ (id = actor /\ (body.roll # 0 \/ CarriesPlacement(body)))
                => (Denied(resp') /\ StudentUnchanged(id))
             /\ id # actor => StudentUnchanged(id)]_vars

\* createdBy is the admin's own id or the id of a teacher the admin created
CreatedUnder(admin, student) ==
    \/ student.createdBy = admin
    \/ /\ student.createdBy \in Teachers
       /\ users[student.createdBy].createdBy = admin

\* C6: an admin's update of a StudentRecord is permitted if the record's
\* createdBy is the admin's own id or the id of a teacher created by that
\* admin, and otherwise denied with the record unchanged.
C6_AdminScopedToOwnStudents ==
    [][\A actor \in Admins, id \in DOMAIN students :
          IF CreatedUnder(actor, students[id])
          THEN PutStudent(actor, id, NameOnlyBody) => resp'.status = 200
          ELSE (\E body \in UpdateBodies : PutStudent(actor, id, body))
               => (Denied(resp') /\ StudentUnchanged(id))]_vars

\* C7: a DELETE /student/:id by an admin on a student whose createdBy is not
\* the admin's own id is denied and the record remains.
C7_AdminDeletesOwnStudentsOnly ==
    [][\A actor \in Admins, id \in DOMAIN students :
          (students[id].createdBy # actor /\ DeleteStudent(actor, id))
          => (Denied(resp') /\ StudentUnchanged(id))]_vars

(***************************************************************************)
(* Claims on the account routes                                            *)
(***************************************************************************)
UnchangedAndPresent(id) == id \in DOMAIN users' /\ users'[id] = users[id]

\* C8: every PUT or DELETE on /user/:id by an admin that targets an account
\* whose createdBy is not the admin's id is denied and leaves the target
\* account unchanged and present.
C8_AdminDeniedOnForeignAccount ==
    [][\A actor \in DOMAIN users, id \in DOMAIN users :
          (/\ users[actor].role = "admin"
           /\ users[id].createdBy # actor
           /\ \/ \E body \in UserBodies : PutUser(actor, id, body)
              \/ DeleteUser(actor, id))
          => (Denied(resp') /\ UnchangedAndPresent(id))]_vars

\* C9: for every actor role, a DELETE /user/:id whose target has role
\* super_admin is denied and the account still exists afterwards.
C9_SuperAdminNotDeletable ==
    [][\A actor \in DOMAIN users, id \in DOMAIN users :
          (users[id].role = "super_admin" /\ DeleteUser(actor, id))
          => (Denied(resp') /\ UnchangedAndPresent(id))]_vars

\* C10: in every reachable state at most one account has role super_admin,
\* and once the bootstrap has succeeded (a first account was stored) exactly
\* one has.
C10_SingleSuperAdmin ==
    /\ Cardinality(SuperAdmins(users)) <= 1
    /\ nextUid > 1 => Cardinality(SuperAdmins(users)) = 1

\* C11: in every reachable state every account with role admin has a
\* createdBy that refers to a super-admin account, and every account with
\* role teacher has a createdBy that refers to an admin account.
C11_CreatorHierarchy ==
    \A id \in DOMAIN users :
        /\ users[id].role = "admin"
           => /\ users[id].createdBy \in DOMAIN users
              /\ users[users[id].createdBy].role = "super_admin"
        /\ users[id].role = "teacher"
           => /\ users[id].createdBy \in DOMAIN users
              /\ users[users[id].createdBy].role = "admin"

(***************************************************************************)
(* Admin codes: /admin/create requests that overlap, and codes the         *)
(* super-admin sets through PUT /user/:id, starting from an installation   *)
(* that already has admins.                                                *)
(***************************************************************************)
\* codes the admins of the installation carry when the run starts: codes of
\* the month with low and high sequence numbers, and one of the month before
CodeInputs ==
    {AdminCode(n) : n \in {1, 2, 9, 10, 99, 100, 998, 999}}
    \cup {<<2, 6, 1, 0, 0, 0, 5>>}

\* the super-admin and one admin per code, in the order of the codes
SeededUsers(codes) ==
    [id \in 1..(1 + Cardinality(codes)) |->
        IF id = 1 THEN UserDoc("super_admin", NoId, {}, "n0", NoCode)
        ELSE UserDoc("admin", 1, {}, "n0",
                     CHOOSE c \in codes :
                         Cardinality({d \in codes : StringLess(d, c)}) = id - 2)]

\* req.body of a PUT /user/:id that sets the adminCode
AdminCodeBodies == {UserBody("", "", c, FALSE, {}) : c \in {AdminCode(2), AdminCode(999)}}

InitAdminCode ==
    /\ \E codes \in SUBSET CodeInputs :
          /\ Cardinality(codes) <= MaxSeededAdmins
          /\ users = SeededUsers(codes)
          /\ nextUid = Cardinality(codes) + 2
    /\ students = NoStudents
    /\ results = <<>>
    /\ resp = NoResp
    /\ nextSid = SeedIds.student1
    /\ setupInFlight = 0
    /\ inflight = NoRequests
    /\ nextToken = 1
    /\ now = 0
    /\ Connected

NextAdminCode ==
    \/ \E actor \in SuperAdmins(users) :
          /\ nextUid + BagCardinality(inflight) <= MaxSeededAdmins + MaxCreatedAdmins + 1
          /\ CreateAdminScan(actor)
    \/ \E r \in BagToSet(inflight) : CreateAdminSave(r)
    \/ \E actor \in SuperAdmins(users), id \in DOMAIN users, body \in AdminCodeBodies :
          PutUser(actor, id, body)

SpecAdminCode == InitAdminCode /\ [][NextAdminCode]_vars

(***************************************************************************)
(* Sessions: POST /signin, /refresh and /logout of the signin router.      *)
(* A refresh token is the number of the generateTokens call that made it   *)
(* (crypto.randomBytes(40) never repeats); refreshTokens lists them oldest *)
(* first.  Each handler reads the document, changes the array in memory    *)
(* and saves: the two steps are separate awaits, so other requests run in  *)
(* between.  Mongoose sends a pushed element as $push, which increments    *)
(* the document version __v, and an assigned array as $set of the whole    *)
(* array under the condition that __v is the one that was read: the save   *)
(* throws VersionError when another save changed the array meanwhile.      *)
(* A request records that as `stale` instead of carrying the number.       *)
(***************************************************************************)
\* student.refreshTokens.length > 5
DeviceLimit == 5

NoToken == 0

Subject(coll, id) == [coll |-> coll, id |-> id]

NoSubject == Subject("none", NoId)

SubjectExists(sub) ==
    \/ sub.coll = "User" /\ sub.id \in DOMAIN users
    \/ sub.coll = "Student" /\ sub.id \in DOMAIN students

refreshTokensOf(sub) ==
    IF sub.coll = "User" THEN users[sub.id].refreshTokens
    ELSE students[sub.id].refreshTokens

Holds(sub, token) ==
    \E i \in 1..Len(refreshTokensOf(sub)) : refreshTokensOf(sub)[i] = token

\* a request that has read its document and not saved yet
Request(op, sub, token) ==
    [op |-> op, sub |-> sub, token |-> token,
     refreshTokens |-> refreshTokensOf(sub), stale |-> FALSE]

\* refreshTokens.filter(token => token.token !== refreshToken)
filterToken(tokens, token) == SelectSeq(tokens, LAMBDA t : t # token)

signinTokens_Uncut(tokens, token) == Append(tokens, token)

\* the array a sign-in leaves in memory: push, then cut to the newest five
signinTokens(tokens, token) ==
    IF Len(Append(tokens, token)) > DeviceLimit
    THEN slice(Append(tokens, token), DeviceLimit)
    ELSE Append(tokens, token)

\* whether the sign-in assigned the array (saved as $set) or only pushed
signinAssigns(tokens) == Len(tokens) + 1 > DeviceLimit

\* the array a refresh leaves in memory
refreshTokensAfter(tokens, token, newToken) ==
    Append(filterToken(tokens, token), newToken)

VersionError_Never(r, assigned) == FALSE

\* save() of an assigned array is refused when the version moved on
VersionError(r, assigned) == assigned /\ r.stale

MarkStale(q, sub) ==
    IF q.op \in {"signin", "refresh", "logout"} /\ q.sub = sub THEN [q EXCEPT !.stale = TRUE] ELSE q

\* the requests in flight once a save has incremented the version of sub
Behind(bag, sub) ==
    [q \in {MarkStale(p, sub) : p \in BagToSet(bag)} |->
        (IF MarkStale(q, sub) = q THEN CopiesIn(q, bag) ELSE 0)
        + (IF q.op \in {"signin", "refresh", "logout"} /\ q.sub = sub /\ q.stale
           THEN CopiesIn([q EXCEPT !.stale = FALSE], bag) ELSE 0)]

\* the save went through: the array is stored and the version incremented
Saved(r, tokens) ==
    /\ users' = IF r.sub.coll = "User"
                THEN [users EXCEPT ![r.sub.id].refreshTokens = tokens]
                ELSE users
    /\ students' = IF r.sub.coll = "Student"
                   THEN [students EXCEPT ![r.sub.id] =
                            studentPreSave([@ EXCEPT !.refreshTokens = tokens])]
                   ELSE students
    /\ inflight' = Behind(Answered(r), r.sub)

CanStart(op) ==
    /\ BagCardinality(inflight) < MaxInFlight
    /\ op \in {"signin", "refresh"}
       => nextToken + BagCardinality(inflight) <= MaxIssued

\* User.findOne({ email }), then Student.findOne({ userName: email })
signinLookup(who) == IF SubjectExists(who) THEN who ELSE NoSubject

SigninFind(who, passwordOk) ==
    /\ CanStart("signin")
    /\ IF signinLookup(who) = NoSubject
       THEN /\ resp' = Reply("POST /signin", 400, "Invalid email/username or password")
            /\ UNCHANGED inflight
       ELSE IF ~passwordOk
       THEN /\ resp' = Reply("POST /signin", 400,
                             IF who.coll = "User" THEN "Invalid email or password"
                             ELSE "Invalid email/username or password")
            /\ UNCHANGED inflight
       ELSE /\ inflight' = inflight (+) SetToBag({Request("signin", who, NoToken)})
            /\ UNCHANGED resp
    /\ UNCHANGED <<users, students, results, nextUid, nextSid, setupInFlight,
                   nextToken, now, dbVars>>

SigninSave(r) ==
    /\ r \in BagToSet(inflight)
    /\ r.op = "signin"
    /\ IF VersionError(r, signinAssigns(r.refreshTokens))
       THEN /\ resp' = ReplyLogged("POST /signin", 500, "Server error", <<"Signin error:">>)
            /\ inflight' = Answered(r)
            /\ UNCHANGED <<users, students, nextToken>>
       ELSE /\ Saved(r, IF signinAssigns(r.refreshTokens)
                        THEN signinTokens(r.refreshTokens, nextToken)
                        ELSE Append(refreshTokensOf(r.sub), nextToken))
            /\ nextToken' = nextToken + 1
            /\ resp' = Reply("POST /signin", 200, "")
    /\ UNCHANGED <<results, nextUid, nextSid, setupInFlight, now, dbVars>>

\* User.findOne({ 'refreshTokens.token': refreshToken }), then the same on
\* Student
refreshLookup(token) ==
    IF \E id \in DOMAIN users : Holds(Subject("User", id), token)
    THEN Subject("User", CHOOSE id \in DOMAIN users : Holds(Subject("User", id), token))
    ELSE IF \E id \in DOMAIN students : Holds(Subject("Student", id), token)
    THEN Subject("Student",
                 CHOOSE id \in DOMAIN students : Holds(Subject("Student", id), token))
    ELSE NoSubject

RefreshFind(token) ==
    /\ CanStart("refresh")
    /\ IF token = NoToken
       THEN /\ resp' = Reply("POST /refresh", 400, "Refresh token required")
            /\ UNCHANGED inflight
       ELSE IF refreshLookup(token) = NoSubject
       THEN /\ resp' = Reply("POST /refresh", 403, "Invalid refresh token")
            /\ UNCHANGED inflight
       ELSE /\ inflight' = inflight (+)
                           SetToBag({Request("refresh", refreshLookup(token), token)})
            /\ UNCHANGED resp
    /\ UNCHANGED <<users, students, results, nextUid, nextSid, setupInFlight,
                   nextToken, now, dbVars>>

RefreshSave(r) ==
    /\ r \in BagToSet(inflight)
    /\ r.op = "refresh"
    /\ IF VersionError(r, TRUE)
       THEN /\ resp' = ReplyLogged("POST /refresh", 500, "Server error",
                                   <<"Refresh token error:">>)
            /\ inflight' = Answered(r)
            /\ UNCHANGED <<users, students, nextToken>>
       ELSE /\ Saved(r, refreshTokensAfter(r.refreshTokens, r.token, nextToken))
            /\ nextToken' = nextToken + 1
            /\ resp' = Reply("POST /refresh", 200, "")
    /\ UNCHANGED <<results, nextUid, nextSid, setupInFlight, now, dbVars>>

\* who is the subject of the access token: User.findById, then
\* Student.findById
LogoutFind(who, token) ==
    /\ CanStart("logout")
    /\ IF token = NoToken
       THEN /\ resp' = Reply("POST /logout", 400, "Refresh token required")
            /\ UNCHANGED inflight
       ELSE IF ~SubjectExists(who)
       THEN /\ resp' = Reply("POST /logout", 404, "User not found")
            /\ UNCHANGED inflight
       ELSE /\ inflight' = inflight (+) SetToBag({Request("logout", who, token)})
            /\ UNCHANGED resp
    /\ UNCHANGED <<users, students, results, nextUid, nextSid, setupInFlight,
                   nextToken, now, dbVars>>

\* an assigned array that equals the one read leaves the document unmodified
\* and save() sends nothing
LogoutSave(r) ==
    /\ r \in BagToSet(inflight)
    /\ r.op = "logout"
    /\ IF filterToken(r.refreshTokens, r.token) = r.refreshTokens
       THEN /\ resp' = Reply("POST /logout", 200, "Logged out successfully")
            /\ inflight' = Answered(r)
            /\ UNCHANGED <<users, students>>
       ELSE IF VersionError(r, TRUE)
       THEN /\ resp' = ReplyLogged("POST /logout", 500, "Server error", <<"Logout error:">>)
            /\ inflight' = Answered(r)
            /\ UNCHANGED <<users, students>>
       ELSE /\ Saved(r, filterToken(r.refreshTokens, r.token))
            /\ resp' = Reply("POST /logout", 200, "Logged out successfully")
    /\ UNCHANGED <<results, nextUid, nextSid, setupInFlight, nextToken, now, dbVars>>

\* the accounts that sign in: a teacher, the student, and a name nobody has
SessionSubjects ==
    {Subject("User", SeedIds.teacher1), Subject("Student", SeedIds.student1),
     Subject("Student", SeedIds.nobody)}

IssuedTokens == NoToken..(nextToken - 1)

InitSession ==
    /\ users = SeedUsers
    /\ students = SeedStudents
    /\ results = <<>>
    /\ resp = NoResp
    /\ nextUid = SeedIds.teacher2 + 1
    /\ nextSid = SeedIds.student1 + 1
    /\ setupInFlight = 0
    /\ inflight = NoRequests
    /\ nextToken = 1
    /\ now = 0
    /\ Connected

\* requests served one after the other: a handler starts when none is in
\* flight
NextSession ==
    \/ \E who \in SessionSubjects, passwordOk \in BOOLEAN :
           inflight = NoRequests /\ SigninFind(who, passwordOk)
    \/ \E token \in IssuedTokens : inflight = NoRequests /\ RefreshFind(token)
    \/ \E who \in SessionSubjects, token \in IssuedTokens :
           inflight = NoRequests /\ LogoutFind(who, token)
    \/ \E r \in BagToSet(inflight) : SigninSave(r)
    \/ \E r \in BagToSet(inflight) : RefreshSave(r)
    \/ \E r \in BagToSet(inflight) : LogoutSave(r)

SpecSession == InitSession /\ [][NextSession]_vars

\* requests served concurrently
WithinOverlap == nextToken + BagCardinality(inflight) <= MaxIssuedOverlapping

NextRefresh ==
    \/ \E who \in SessionSubjects, passwordOk \in BOOLEAN :
           WithinOverlap /\ SigninFind(who, passwordOk)
    \/ \E token \in IssuedTokens : WithinOverlap /\ RefreshFind(token)
    \/ \E who \in SessionSubjects, token \in IssuedTokens :
           WithinOverlap /\ LogoutFind(who, token)
    \/ \E r \in BagToSet(inflight) : SigninSave(r)
    \/ \E r \in BagToSet(inflight) : RefreshSave(r)
    \/ \E r \in BagToSet(inflight) : LogoutSave(r)

SpecRefresh == InitSession /\ [][NextRefresh]_vars

(***************************************************************************)
(* Claims on the sessions                                                  *)
(***************************************************************************)
AllSubjects ==
    {Subject("User", id) : id \in DOMAIN users}
    \cup {Subject("Student", id) : id \in DOMAIN students}

\* the array of sub after the step
refreshTokensAfterStep(sub) ==
    IF sub.coll = "User" THEN users'[sub.id].refreshTokens
    ELSE students'[sub.id].refreshTokens

Live(token) == \E sub \in AllSubjects : Holds(sub, token)

LiveAfterStep(token) ==
    \E sub \in AllSubjects :
        \E i \in 1..Len(refreshTokensAfterStep(sub)) :
            refreshTokensAfterStep(sub)[i] = token

\* C13: with requests overlapping, a refresh that presents a token no
\* subject holds is answered 403 'Invalid refresh token' and changes nothing;
\* a refresh is answered with a new pair only if its token is held when it
\* saves, and the token is not held afterwards; and a token that is not held
\* is never held again.  So a token is rotated at most once, whether the
\* other refresh with it comes later or runs at the same time.
C13_RotatedAtMostOnce ==
    [][/\ \A token \in IssuedTokens \ {NoToken} :
             (~Live(token) /\ RefreshFind(token))
             => /\ resp' = Reply("POST /refresh", 403, "Invalid refresh token")
                /\ UNCHANGED <<users, students, inflight, nextToken>>
       /\ \A r \in BagToSet(inflight) :
             (RefreshSave(r) /\ resp'.status = 200)
             => (Live(r.token) /\ ~LiveAfterStep(r.token))
       /\ \A r \in BagToSet(inflight) :
             (RefreshSave(r) /\ resp'.status # 200)
             => UNCHANGED <<users, students, nextToken>>
       /\ \A token \in IssuedTokens \ {NoToken} :
             ~Live(token) => ~LiveAfterStep(token)]_vars

\* one sign-in, then two refreshes that both read token 1: one was answered
\* with token 2, the other has just failed
C13_Witness ==
    /\ resp.op = "POST /refresh"
    /\ resp.status = 500
    /\ nextToken = 3
    /\ users[SeedIds.teacher1].refreshTokens = <<2>>
    /\ students[SeedIds.student1].refreshTokens = <<>>
    /\ inflight = NoRequests

(***************************************************************************)
(* Claims on the admin codes                                               *)
(***************************************************************************)
CodedAdmins == {u \in DOMAIN users : users[u].role = "admin" /\ users[u].adminCode # NoCode}

\* C14: in every reachable state the admin accounts that are stored carry
\* pairwise distinct adminCode values, also when /admin/create requests
\* overlap within the month and generate the same code.
C14_DistinctAdminCodes ==
    \A a \in CodedAdmins, b \in CodedAdmins :
        a # b => users[a].adminCode # users[b].adminCode

\* two overlapping creations generated the same code, one is stored and the
\* other has been refused by the unique index
C14_Witness ==
    /\ resp.message = "Admin code already exists. Please try again."
    /\ DOMAIN users = {1, 2}
    /\ users[2].adminCode = AdminCode(1)
    /\ inflight = NoRequests

\* the code of r was stored by the /admin/create that has just been
\* answered, and a scan made now would give another one
TakenByOverlappingCreate(r) ==
    /\ resp = Reply("POST /admin/create", 201, "Admin created successfully")
    /\ users[nextUid - 1].adminCode = r.adminCode
    /\ generateAdminCode(users) # r.adminCode

\* C15: an /admin/create request whose generated code was taken by an
\* overlapping creation before it saves is not refused: the admin is stored
\* and the request answered 201.
C15_CollisionRetried ==
    [][\A r \in BagToSet(inflight) :
          (TakenByOverlappingCreate(r) /\ CreateAdminSave(r))
          => /\ resp'.status = 201
             /\ nextUid' = nextUid + 1]_vars

\* sequence number of a code of the month
SequenceOf(code) == parseInt(SubSeq(code, Len(YYMM) + 1, Len(code)))

MonthCodes == {c \in AdminCodes(users) : startsWith(c, YYMM) /\ Len(c) > Len(YYMM)}

MaxSequence ==
    IF MonthCodes = {} THEN 0
    ELSE CHOOSE n \in {SequenceOf(c) : c \in MonthCodes} :
             \A c \in MonthCodes : SequenceOf(c) <= n

\* C16: for every set of stored codes, generateAdminCode returns the prefix
\* of the month followed by the largest sequence number of the month + 1
\* padded to three digits (001 when the month has no code), and the code it
\* returns is not one that is stored.
C16_NextCodeIsFresh ==
    /\ generateAdminCode(users) = YYMM \o padStart(toString(MaxSequence + 1), 3)
    /\ generateAdminCode(users) \notin AdminCodes(users)

(***************************************************************************)
(* Rolls: the student routes on a class that has two students.             *)
(***************************************************************************)
\* the seed student and a classmate with the next roll, both created by
\* admin1 through /student/create
Classmates ==
    SeedStudents @@
    ((SeedIds.student1 + 1) :>
        StudentDoc("n0", "u2", "h0", 2, "9", "A", SeedIds.admin1))

InitRoll ==
    /\ users = SeedUsers
    /\ students = Classmates
    /\ results = <<>>
    /\ resp = NoResp
    /\ nextUid = SeedIds.teacher2 + 1
    /\ nextSid = SeedIds.student1 + 2
    /\ setupInFlight = 0
    /\ inflight = NoRequests
    /\ nextToken = 1
    /\ now = 0
    /\ Connected

NextRoll ==
    \E actor \in {SeedIds.admin1, SeedIds.teacher1}, id \in DOMAIN Classmates,
       body \in UpdateBodies :
        PutStudent(actor, id, body)

SpecRoll == InitRoll /\ [][NextRoll]_vars

\* C17: no two students share the same (class, section, roll), after any
\* sequence of student creations and updates.
C17_RollUniqueInClassSection ==
    \A a \in DOMAIN students, b \in DOMAIN students :
        a # b => <<students[a].class, students[a].section, students[a].roll>>
                 # <<students[b].class, students[b].section, students[b].roll>>

(***************************************************************************)
(* Payments: the payments router.  The clock `now` counts ticks of twelve  *)
(* hours.  studentSchema has no lastPaymentDate path, so the $set of it is *)
(* dropped by the strict schema and student.lastPaymentDate is undefined   *)
(* in every document that is read: the cycle starts at createdAt.          *)
(***************************************************************************)
\* 1000 * 60 * 60 * 24 milliseconds, in ticks
DayTicks == 2

\* the 30 of calculatePaymentCycle and of thirtyDaysAgo
CycleDays == 30

calculatePaymentCycle_After30(lastPaymentDate) ==
    LET daysSinceLastPayment == (now - lastPaymentDate) \div DayTicks
        daysLeft == CycleDays - daysSinceLastPayment
    IN  IF daysSinceLastPayment > CycleDays
        THEN [needsReset |-> TRUE, daysLeft |-> 0, isOverdue |-> TRUE]
        ELSE [needsReset |-> FALSE, daysLeft |-> IF daysLeft > 0 THEN daysLeft ELSE 0,
              isOverdue |-> FALSE]

\* Math.floor((now - lastPayment) / day), then the two branches
calculatePaymentCycle(lastPaymentDate) ==
    LET daysSinceLastPayment == (now - lastPaymentDate) \div DayTicks
        daysLeft == CycleDays - daysSinceLastPayment
    IN  IF daysSinceLastPayment >= CycleDays
        THEN [needsReset |-> TRUE, daysLeft |-> 0, isOverdue |-> TRUE]
        ELSE [needsReset |-> FALSE, daysLeft |-> IF daysLeft > 0 THEN daysLeft ELSE 0,
              isOverdue |-> FALSE]

\* student.lastPaymentDate || student.createdAt
lastPaymentDateOf(student) == student.createdAt

\* a response of the payments router that carries the cycle
CycleReply(op, message, student, cycle) ==
    [op |-> op, status |-> 200, message |-> message, log |-> <<>>,
     hasPaid |-> student.hasPaid, daysLeft |-> cycle.daysLeft,
     isOverdue |-> cycle.isOverdue]

\* req.currentUser.role !== 'super_admin' &&
\* student.createdBy.toString() !== req.user.id
paymentsForbidden(actor, student) ==
    users[actor].role # "super_admin" /\ student.createdBy # actor

\* PUT /payments/:studentId: findByIdAndUpdate with $set, no save hook
PutPayment(actor, id, paymentAmount, hasPaid) ==
    LET op == "PUT /payments/:studentId"
        gate == requireRole({"admin", "super_admin"}, actor)
    IN  /\ IF gate # 0
           THEN resp' = Reply(op, gate, requireRoleMessage(gate)) /\ UNCHANGED students
           ELSE IF paymentAmount < 0
           THEN resp' = Reply(op, 400, "Invalid payment amount") /\ UNCHANGED students
           ELSE IF id \notin DOMAIN students
           THEN resp' = Reply(op, 404, "Student not found") /\ UNCHANGED students
           ELSE IF paymentsForbidden(actor, students[id])
           THEN resp' = Reply(op, 403, "Not authorized to update this student")
                /\ UNCHANGED students
           ELSE /\ students' = [students EXCEPT ![id].paymentAmount = paymentAmount,
                                                ![id].hasPaid = hasPaid]
                /\ resp' = CycleReply(op, "Student payment information updated successfully",
                                      students'[id],
                                      calculatePaymentCycle(lastPaymentDateOf(students[id])))
        /\ UNCHANGED <<users, results, nextUid, nextSid, setupInFlight,
                       inflight, nextToken, now, dbVars>>

\* GET /payments/:studentId: an overdue student that has paid is reset
GetPayment(actor, id) ==
    LET op == "GET /payments/:studentId"
        gate == requireRole({"admin", "super_admin", "teacher"}, actor)
    IN  /\ IF gate # 0
           THEN resp' = Reply(op, gate, requireRoleMessage(gate)) /\ UNCHANGED students
           ELSE IF id \notin DOMAIN students
           THEN resp' = Reply(op, 404, "Student not found") /\ UNCHANGED students
           ELSE IF paymentsForbidden(actor, students[id])
           THEN resp' = Reply(op, 403, "Not authorized to view this student")
                /\ UNCHANGED students
           ELSE LET paymentCycle == calculatePaymentCycle(lastPaymentDateOf(students[id]))
                IN  /\ students' = IF paymentCycle.needsReset /\ students[id].hasPaid
                                   THEN [students EXCEPT ![id].hasPaid = FALSE]
                                   ELSE students
                    /\ resp' = CycleReply(op, "", students'[id], paymentCycle)
        /\ UNCHANGED <<users, results, nextUid, nextSid, setupInFlight,
                       inflight, nextToken, now, dbVars>>

sweepMatches_AnyStatus(student, thirtyDaysAgo) == student.createdAt < thirtyDaysAgo

\* the filter of updateMany on a document without lastPaymentDate:
\* createdAt < thirtyDaysAgo and hasPaid
sweepMatches(student, thirtyDaysAgo) ==
    student.createdAt < thirtyDaysAgo /\ student.hasPaid

\* POST /payments/auto-reset up to the updateMany it sends; updateMany then
\* visits the documents one at a time
SweepStart(actor) ==
    LET op == "POST /payments/auto-reset"
        gate == requireRole({"super_admin"}, actor)
    IN  /\ BagCardinality(inflight) < MaxInFlight
        /\ IF gate # 0
           THEN resp' = Reply(op, gate, requireRoleMessage(gate)) /\ UNCHANGED inflight
           ELSE /\ inflight' = inflight (+)
                        SetToBag({[op |-> op,
                                   thirtyDaysAgo |-> now - CycleDays * DayTicks,
                                   pending |-> DOMAIN students, modifiedCount |-> 0]})
                /\ UNCHANGED resp
        /\ UNCHANGED <<users, students, results, nextUid, nextSid, setupInFlight,
                       nextToken, now, dbVars>>

\* updateMany applies { $set: { hasPaid: false } } to one document if it
\* matches the filter at that moment
SweepStep(r, id) ==
    /\ r \in BagToSet(inflight)
    /\ r.op = "POST /payments/auto-reset"
    /\ id \in r.pending
    /\ LET matches == id \in DOMAIN students /\ sweepMatches(students[id], r.thirtyDaysAgo)
       IN  /\ students' = IF matches THEN [students EXCEPT ![id].hasPaid = FALSE]
                          ELSE students
           /\ inflight' = Answered(r) (+)
                   SetToBag({[r EXCEPT !.pending = @ \ {id},
                                       !.modifiedCount = IF matches THEN @ + 1 ELSE @]})
    /\ UNCHANGED <<users, results, resp, nextUid, nextSid, setupInFlight,
                   nextToken, now, dbVars>>

SweepEnd(r) ==
    /\ r \in BagToSet(inflight)
    /\ r.op = "POST /payments/auto-reset"
    /\ r.pending = {}
    /\ inflight' = Answered(r)
    /\ resp' = [op |-> r.op, status |-> 200,
                message |-> "Payment cycle reset completed.", log |-> <<>>,
                resetCount |-> r.modifiedCount]
    /\ UNCHANGED <<users, students, results, nextUid, nextSid, setupInFlight,
                   nextToken, now, dbVars>>

\* twelve hours pass
Tick ==
    /\ now < MaxNow
    /\ now' = now + 1
    /\ UNCHANGED <<users, students, results, resp, nextUid, nextSid, setupInFlight,
                   inflight, nextToken, dbVars>>

\* paymentAmount of a request body: not a valid amount, nothing, a fee
PaymentAmounts == {-1, 0, 500}

PaymentActors == {SeedIds.super, SeedIds.admin1, SeedIds.admin2, SeedIds.teacher1}

InitPayment ==
    /\ users = SeedUsers
    /\ students = SeedStudents
    /\ results = <<>>
    /\ resp = NoResp
    /\ nextUid = SeedIds.teacher2 + 1
    /\ nextSid = SeedIds.student1 + 1
    /\ setupInFlight = 0
    /\ inflight = NoRequests
    /\ nextToken = 1
    /\ now = 0
    /\ Connected

NextPayment ==
    \/ Tick
    \/ \E actor \in PaymentActors, id \in {SeedIds.student1, SeedIds.nobody},
          paymentAmount \in PaymentAmounts, hasPaid \in BOOLEAN :
          PutPayment(actor, id, paymentAmount, hasPaid)
    \/ \E actor \in PaymentActors, id \in {SeedIds.student1, SeedIds.nobody} :
          GetPayment(actor, id)

SpecPayment == InitPayment /\ [][NextPayment]_vars

\* the time point of the sweeps: 31 days after tick 0
SweepNow == DayTicks * (CycleDays + 1)

\* createdAt of a student: 31 days, exactly 30 days and 11 days before the
\* sweep
CreatedAtInputs == {0, DayTicks, 20 * DayTicks}

\* the two classmates as PUT /payments/:studentId and the clock leave them
Populations ==
    {[id \in DOMAIN Classmates |->
         [Classmates[id] EXCEPT !.hasPaid = paid[id], !.paymentAmount = amount[id],
                                !.createdAt = created[id]]] :
       paid \in [DOMAIN Classmates -> BOOLEAN],
       amount \in [DOMAIN Classmates -> {0, 500}],
       created \in [DOMAIN Classmates -> CreatedAtInputs]}

InitSweep ==
    /\ users = SeedUsers
    /\ students \in Populations
    /\ results = <<>>
    /\ resp = NoResp
    /\ nextUid = SeedIds.teacher2 + 1
    /\ nextSid = SeedIds.student1 + 2
    /\ setupInFlight = 0
    /\ inflight = NoRequests
    /\ nextToken = 1
    /\ now = SweepNow
    /\ Connected

NextSweep ==
    \/ \E actor \in {SeedIds.super, SeedIds.admin1} : SweepStart(actor)
    \/ \E r \in BagToSet(inflight), id \in DOMAIN students : SweepStep(r, id)
    \/ \E r \in BagToSet(inflight) : SweepEnd(r)

SpecSweep == InitSweep /\ [][NextSweep]_vars

(***************************************************************************)
(* Claims on the payments                                                  *)
(***************************************************************************)
\* C18: in every stored student, paymentAmount and hasPaid are the values
\* the derivation rule gives from the latest entry of paymentDetails and the
\* clock (0 and false when there is none).
C18_DerivedFromPaymentDetails ==
    \A id \in DOMAIN students :
        /\ students[id].paymentAmount = studentPreSave(students[id]).paymentAmount
        /\ students[id].hasPaid = studentPreSave(students[id]).hasPaid

\* whole days between the start of the cycle and now
ElapsedDays(lastPaymentDate) ==
    CHOOSE d \in 0..MaxNow :
        d * DayTicks <= now - lastPaymentDate /\ now - lastPaymentDate < (d + 1) * DayTicks

\* C19: with elapsedDays the whole days since the cycle started,
\* calculatePaymentCycle gives needsReset, isOverdue and daysLeft 0 when
\* elapsedDays >= 30, and otherwise neither, with daysLeft =
\* max(0, 30 - elapsedDays); 29 days give daysLeft 1 and daysLeft is never
\* negative.
C19_CycleState ==
    \A id \in DOMAIN students :
        LET elapsedDays == ElapsedDays(lastPaymentDateOf(students[id]))
            cycle == calculatePaymentCycle(lastPaymentDateOf(students[id]))
        IN  /\ elapsedDays >= 30
               => cycle = [needsReset |-> TRUE, daysLeft |-> 0, isOverdue |-> TRUE]
            /\ elapsedDays < 30
               => /\ ~cycle.needsReset
                  /\ ~cycle.isOverdue
                  /\ cycle.daysLeft = 30 - elapsedDays
            /\ elapsedDays = 29 => cycle.daysLeft = 1
            /\ cycle.daysLeft >= 0

\* GET /payments/:studentId answered on the last half day of the cycle
C19_Witness ==
    /\ resp.op = "GET /payments/:studentId"
    /\ resp.status = 200
    /\ resp.daysLeft = 1
    /\ ~resp.isOverdue
    /\ now - students[SeedIds.student1].createdAt = 29 * DayTicks + 1

\* no student created more than 30 days before t is marked as paid
AlreadyReset(t) ==
    \A s \in DOMAIN students : students[s].createdAt < t => ~students[s].hasPaid

Sweeps == {r \in BagToSet(inflight) : r.op = "POST /payments/auto-reset"}

\* C20: runs of the sweep at one time point, one after the other or
\* interleaved.  A step of a run changes nothing but hasPaid, from true to
\* false, and only of a student created more than 30 days before; when a run
\* ends, no such student is left marked as paid, which is the state one run
\* leaves; a run counts a record only when it changes it, starts at 0 and
\* reports its count, so on an already-reset population it reports 0.
C20_SweepIdempotent ==
    [][/\ \A r \in Sweeps, id \in DOMAIN students :
             SweepStep(r, id)
             => /\ DOMAIN students' = DOMAIN students
                /\ \A s \in DOMAIN students :
                      \/ students'[s] = students[s]
                      \/ /\ s = id
                         /\ students[s].hasPaid
                         /\ students[s].createdAt < now - 30 * DayTicks
                         /\ students'[s] = [students[s] EXCEPT !.hasPaid = FALSE]
       /\ \A r \in Sweeps :
             SweepEnd(r)
             => /\ AlreadyReset(now - 30 * DayTicks)
                /\ resp'.resetCount = r.modifiedCount
                /\ students' = students
       /\ \A r \in Sweeps, id \in DOMAIN students :
             (AlreadyReset(now - 30 * DayTicks) /\ SweepStep(r, id))
             => /\ students' = students
                /\ \A q \in BagToSet(inflight') : q.modifiedCount <= r.modifiedCount
                                                  \/ q \in BagToSet(inflight)
       /\ \A actor \in DOMAIN users :
             SweepStart(actor)
             => \A q \in BagToSet(inflight') :
                   q \in BagToSet(inflight) \/ q.modifiedCount = 0]_vars

\* two interleaved runs have each reset one of the two students
C20_Witness ==
    /\ BagCardinality(inflight) = 2
    /\ \A r \in BagToSet(inflight) : r.modifiedCount = 1 /\ r.pending = {}
    /\ AlreadyReset(now - 30 * DayTicks)

(***************************************************************************)
(* The result router's reads and the bearer-token gate of every router.    *)
(***************************************************************************)
\* what the Authorization header of a request may carry
Credentials == {"missing", "invalid", "valid"}

\* authenticateToken: 401 without a token, 403 when jwt.verify fails, else
\* next() (0)
authenticateToken(credential) ==
    IF credential = "missing" THEN 401
    ELSE IF credential = "invalid" THEN 403
    ELSE 0

authenticateTokenMessage(status) ==
    IF status = 401 THEN "Access token required" ELSE "Invalid or expired token"

\* Result.findOne(filter).sort({ createdAt: -1 }): the positions of the
\* matching documents, the latest being the highest
matching(coll, studentId, examTypes) ==
    {i \in 1..Len(coll) : coll[i].student = studentId /\ coll[i].examType \in examTypes}

Latest(positions) == CHOOSE i \in positions : \A j \in positions : j <= i

ExamTypes == {"mcq", "cq", "combined"}

\* the body of a 200 answer of the two reads
ResultsReply(op, student, result) ==
    [op |-> op, status |-> 200, message |-> "", log |-> <<>>,
     student |-> [name |-> student.name, roll |-> student.roll,
                  class |-> student.class, section |-> student.section],
     results |-> [examType |-> result.examType, semester |-> result.semester,
                  marks |-> result.marks, totalMcqMarks |-> result.totalMcqMarks,
                  totalCqMarks |-> result.totalCqMarks,
                  totalMarks |-> result.totalMarks,
                  averageGPA |-> result.averageGPA]]

\* the two lookups both reads make once their middleware has let them run
readResults(op, studentId, examTypes, notFound) ==
    LET found == matching(results, studentId, examTypes)
    IN  IF studentId \notin DOMAIN students
        THEN Reply(op, 404, "Student not found")
        ELSE IF found = {}
        THEN Reply(op, 404, notFound)
        ELSE ResultsReply(op, students[studentId], results[Latest(found)])

\* GET /results/:studentId: the handler is the only function of the route
GetResults(credential, studentId) ==
    /\ resp' = readResults("GET /results/:studentId", studentId, ExamTypes,
                           "No results found for this student")
    /\ UNCHANGED <<users, students, results, nextUid, nextSid, setupInFlight,
                   inflight, nextToken, now, dbVars>>

\* `No ${examType.toUpperCase()} results found for this student`
noResultsMessage(examType) ==
    IF examType = "mcq" THEN "No MCQ results found for this student"
    ELSE IF examType = "cq" THEN "No CQ results found for this student"
    ELSE "No COMBINED results found for this student"

\* GET /results/:studentId/:examType: authenticateToken, then the handler
GetResultsByExamType(credential, studentId, examType) ==
    LET op == "GET /results/:studentId/:examType"
        gate == authenticateToken(credential)
    IN  /\ resp' = IF gate # 0
                   THEN Reply(op, gate, authenticateTokenMessage(gate))
                   ELSE readResults(op, studentId, {examType},
                                    noResultsMessage(examType))
        /\ UNCHANGED <<users, students, results, nextUid, nextSid, setupInFlight,
                       inflight, nextToken, now, dbVars>>

\* GET /subjects/:className: authenticateToken, then the handler
GetSubjects(credential, className) ==
    LET op == "GET /subjects/:className"
        gate == authenticateToken(credential)
    IN  /\ resp' = IF gate # 0
                   THEN Reply(op, gate, authenticateTokenMessage(gate))
                   ELSE IF className \notin DOMAIN subjectsConfig
                   THEN Reply(op, 404, "No subjects found for this class")
                   ELSE [op |-> op, status |-> 200, message |-> "", log |-> <<>>,
                         subjects |-> subjectsConfig[className]]
        /\ UNCHANGED <<users, students, results, nextUid, nextSid, setupInFlight,
                       inflight, nextToken, now, dbVars>>

ClassNameInputs == {"9", "12"}

\* the result router: submissions until MaxResults are stored, and its reads
NextResults ==
    \/ NextGrade
    \/ \E credential \in Credentials, studentId \in StudentIdInputs :
          GetResults(credential, studentId)
    \/ \E credential \in Credentials, studentId \in StudentIdInputs,
          examType \in ExamTypes :
          GetResultsByExamType(credential, studentId, examType)
    \/ \E credential \in Credentials, className \in ClassNameInputs :
          GetSubjects(credential, className)

SpecResults == InitGrade /\ [][NextResults]_vars

\* C21: every protected endpoint answers a request without a valid bearer
\* token 401 (no token) or 403 (invalid or expired token) before it reads any
\* record; GET /results/:studentId is one of these endpoints.
C21_NoTokenNoRead ==
    [][\A credential \in {"missing", "invalid"}, studentId \in StudentIdInputs :
          GetResults(credential, studentId)
              => resp'.status = authenticateToken(credential)]_vars

(***************************************************************************)
(* Results and the students they belong to: the submissions of the result *)
(* router, POST /result, and DELETE /student/:id.                          *)
(***************************************************************************)
DeleteActors == {SeedIds.super, SeedIds.admin1, SeedIds.teacher1}

NextOwnership ==
    \/ NextGrade
    \/ \E actor \in DeleteActors, id \in StudentIdInputs : DeleteStudent(actor, id)

SpecOwnership == InitGrade /\ [][NextOwnership]_vars

\* the results whose student is no document of the students collection
Orphans == {i \in 1..Len(results) : results[i].student \notin DOMAIN students}

\* C22: every stored result belongs to an existing student, whatever
\* submissions and deletions have happened.
C22_ResultHasStudent == Orphans = {}

(***************************************************************************)
(* List reads: GET /student of the students router, GET /teacher/students *)
(* and GET /teacher/students/:class/:section of the signin router.        *)
(***************************************************************************)
\* a query or path parameter left out of the request (falsy)
NoFilter == ""

\* one { class, section } condition of a query; NoFilter leaves a field free
Clause(class, section) == [class |-> class, section |-> section]

AnyCreator == {NoId}

\* Student.find(query): the ids of the matching documents; creators is the
\* $in list on createdBy (AnyCreator without one), clauses the $or list.
\* The order of the list (sort by class, section, roll) is not modelled.
find(creators, clauses) ==
    {id \in DOMAIN students :
        /\ creators = AnyCreator \/ students[id].createdBy \in creators
        /\ \E c \in clauses :
              /\ c.class = NoFilter \/ students[id].class = c.class
              /\ c.section = NoFilter \/ students[id].section = c.section}

classQueries(assignedClasses) == {Clause(p[1], p[2]) : p \in assignedClasses}

\* a filter by class alone that forgets the teacher's assignments
teacherClauses_Unscoped(assignedClasses, className, section) ==
    IF className # NoFilter /\ section # NoFilter
    THEN IF <<className, section>> \in assignedClasses
         THEN [empty |-> FALSE, clauses |-> {Clause(className, section)}]
         ELSE [empty |-> TRUE, clauses |-> {}]
    ELSE IF className # NoFilter
    THEN [empty |-> FALSE, clauses |-> {Clause(className, NoFilter)}]
    ELSE IF section # NoFilter
    THEN [empty |-> FALSE, clauses |-> {Clause(NoFilter, section)}]
    ELSE [empty |-> FALSE, clauses |-> classQueries(assignedClasses)]

\* the teacher branch of GET /student for a teacher with assigned classes:
\* the $or list it queries with, or empty when it sets students = []
teacherClauses(assignedClasses, className, section) ==
    IF className # NoFilter /\ section # NoFilter
    THEN IF <<className, section>> \in assignedClasses
         THEN [empty |-> FALSE, clauses |-> {Clause(className, section)}]
         ELSE [empty |-> TRUE, clauses |-> {}]
    ELSE IF className # NoFilter
    THEN IF \E p \in assignedClasses : p[1] = className
         THEN [empty |-> FALSE,
               clauses |-> classQueries({p \in assignedClasses : p[1] = className})]
         ELSE [empty |-> TRUE, clauses |-> {}]
    ELSE IF section # NoFilter
    THEN IF \E p \in assignedClasses : p[2] = section
         THEN [empty |-> FALSE,
               clauses |-> classQueries({p \in assignedClasses : p[2] = section})]
         ELSE [empty |-> TRUE, clauses |-> {}]
    ELSE [empty |-> FALSE, clauses |-> classQueries(assignedClasses)]

\* the body of a list answer: the ids of the students array and its length
ListReply(op, message, found) ==
    [op |-> op, status |-> 200, message |-> message, log |-> <<>>,
     students |-> found, count |-> Cardinality(found)]

\* GET /student
GetStudents(actor, className, section) ==
    LET op == "GET /student"
        gate == requireRole({"super_admin", "admin", "teacher"}, actor)
        currentUser == users[actor]
        teacherIds == {t \in DOMAIN users :
                          users[t].createdBy = actor /\ users[t].role = "teacher"}
        chosen == teacherClauses(currentUser.assignedClasses, className, section)
    IN  /\ resp' =
             IF gate # 0 THEN Reply(op, gate, requireRoleMessage(gate))
             ELSE IF currentUser.role = "super_admin"
             THEN ListReply(op, "students found",
                            find(AnyCreator, {Clause(className, section)}))
             ELSE IF currentUser.role = "admin"
             THEN ListReply(op, "students under your management",
                            find({actor} \cup teacherIds, {Clause(className, section)}))
             ELSE IF currentUser.assignedClasses = {} \/ chosen.empty
             THEN ListReply(op, "students in your assigned classes", {})
             ELSE ListReply(op, "students in your assigned classes",
                            find(AnyCreator, chosen.clauses))
        /\ UNCHANGED <<users, students, results, nextUid, nextSid, setupInFlight,
                       inflight, nextToken, now, dbVars>>

\* GET /teacher/students
GetTeacherStudents(actor) ==
    LET op == "GET /teacher/students"
        gate == requireRole({"teacher", "super_admin"}, actor)
        teacherClasses == users[actor].assignedClasses
    IN  /\ resp' =
             IF gate # 0 THEN Reply(op, gate, requireRoleMessage(gate))
             ELSE IF teacherClasses = {}
             THEN ListReply(op, "No classes assigned to this teacher", {})
             ELSE ListReply(op, "students found in your assigned classes",
                            find(AnyCreator, classQueries(teacherClasses)))
        /\ UNCHANGED <<users, students, results, nextUid, nextSid, setupInFlight,
                       inflight, nextToken, now, dbVars>>

\* GET /teacher/students/:class/:section
GetTeacherClassStudents(actor, className, section) ==
    LET op == "GET /teacher/students/:class/:section"
        gate == requireRole({"teacher"}, actor)
    IN  /\ resp' =
             IF gate # 0 THEN Reply(op, gate, requireRoleMessage(gate))
             ELSE IF <<className, section>> \notin users[actor].assignedClasses
             THEN Reply(op, 403, "You are not assigned to this class and section")
             ELSE ListReply(op, "students found in class-section",
                            find(AnyCreator, {Clause(className, section)}))
        /\ UNCHANGED <<users, students, results, nextUid, nextSid, setupInFlight,
                       inflight, nextToken, now, dbVars>>

\* the students of the populations the list reads are checked on
MaxListed == 2

ListedIds == (SeedIds.student1)..(SeedIds.student1 + MaxListed - 1)

ClassInputs == {"9", "10"}

Pairs == ClassInputs \X Sections

\* the first student was created by admin1, the others by teacher2
ListedCreator(id) == IF id = SeedIds.student1 THEN SeedIds.admin1 ELSE SeedIds.teacher2

\* every student has a roll of its own, so no two share class, section, roll
ListedStudent(id, class, section, createdBy) ==
    [StudentDoc("n0", "u1", "h0", id - SeedIds.student1 + 1, class, section, createdBy)
        EXCEPT !.userName = <<"u", id>>]

ListedPopulations ==
    UNION {[ids -> Pairs] : ids \in SUBSET ListedIds}

ListActors == {SeedIds.super, SeedIds.admin1, SeedIds.teacher1, SeedIds.student1}

\* any installation: teacher1 with any assignment, any population of students
InitList ==
    /\ \E assigned \in SUBSET Pairs :
          users = [SeedUsers EXCEPT ![SeedIds.teacher1].assignedClasses = assigned]
    /\ \E population \in ListedPopulations :
          students = [id \in DOMAIN population |->
                         ListedStudent(id, population[id][1], population[id][2],
                                       ListedCreator(id))]
    /\ results = <<>>
    /\ resp = NoResp
    /\ nextUid = 6
    /\ nextSid = SeedIds.student1 + MaxListed
    /\ setupInFlight = 0
    /\ inflight = NoRequests
    /\ nextToken = 1
    /\ now = 0
    /\ Connected

FilterClasses == ClassInputs \cup {NoFilter}

FilterSections == Sections \cup {NoFilter}

NextList ==
    \/ \E actor \in ListActors, className \in FilterClasses, section \in FilterSections :
          GetStudents(actor, className, section)
    \/ \E actor \in ListActors : GetTeacherStudents(actor)
    \/ \E actor \in ListActors, className \in ClassInputs, section \in Sections :
          GetTeacherClassStudents(actor, className, section)

SpecList == InitList /\ [][NextList]_vars

\* the students in the (class, section) pairs assigned to a teacher
InScope(teacher) ==
    {id \in DOMAIN students :
        <<students[id].class, students[id].section>> \in users[teacher].assignedClasses}

\* the callers of the list reads that are teachers
Teaching == {u \in ListActors \cap DOMAIN users : users[u].role = "teacher"}

Listed(r) == IF r.status = 200 THEN r.students ELSE {}

RejectedByHook(r) ==
    /\ r.log # <<>>
    /\ r.log[1] \in {"Score exceeds total marks for subject",
                     "Marks array cannot be empty"}

\* C24: a submission rejected because a score exceeds its total, or because
\* the marks list is empty, is answered with a validation error that names the
\* bad input, not with a generic server failure.
C24_RejectionNamesTheInput ==
    RejectedByHook(resp) => (Denied(resp) /\ resp.message # "Server error")

\* the document /submit/combined hands to save()
CombinedDoc(studentId, classKey, semester, marks) ==
    newResult(studentId, classKey, semester, "combined",
              formatCombined(subjectsConfig[classKey], marks))

\* C25: when an entry fails validation in the grading step, the step signals
\* the error once and nothing else: next is called exactly once, no entry is
\* graded, and the marks and the aggregates of the document are not assigned.
C25_FailureAbortsTheStep ==
    [][\A actor \in SubmitActors, studentId \in StudentIdInputs,
          classKey \in CombinedClassKeys, semester \in SemesterInputs :
          \A marks \in MarksInputs(CombinedBodyMarks, actor, studentId, classKey, semester) :
             LET doc == CombinedDoc(studentId, classKey, semester, marks)
                 hook == resultPreSave(doc)
             IN  (/\ ReachesGrading(actor, studentId, classKey, semester)
                  /\ SubmitCombined(actor, studentId, classKey, semester, marks)
                  /\ \E i \in 1..Len(doc.marks) : ScoreExceeds(doc.marks[i]))
                    => (hook.calls = <<"error">> /\ hook.doc = doc)]_vars

(***************************************************************************)
(* GET /result of the students router.                                     *)
(***************************************************************************)
\* Result.find(filter): the positions of the stored results that match; a
\* filter field left out is NoFilter (NoId for the student), owners is the $in
\* list on student (AnyCreator without one)
findResults(classFilter, studentId, semester, owners) ==
    {i \in 1..Len(results) :
        /\ classFilter = NoFilter \/ results[i].class = classFilter
        /\ studentId = NoId \/ results[i].student = studentId
        /\ semester = NoFilter \/ results[i].semester = semester
        /\ owners = AnyCreator \/ results[i].student \in owners}

ResultListReply(op, found) ==
    [op |-> op, status |-> 200, message |-> "", log |-> <<>>, results |-> found]

\* GET /result.  For an admin the handler spreads filter.student into the $in
\* condition; when studentId is given that is a string, whose characters
\* become numbered keys beside $in.  What Mongoose makes of that object is
\* outside the repository: the query either throws while casting (castError,
\* answered by the catch) or runs with the $in condition alone.
GetResult(actor, classFilter, studentId, semester, castError) ==
    LET op == "GET /result"
        gate == requireRole({"super_admin", "admin", "teacher"}, actor)
        teacherStudents == {id \in DOMAIN students : students[id].createdBy = actor}
    IN  /\ resp' =
             IF gate # 0 THEN Reply(op, gate, requireRoleMessage(gate))
             ELSE IF users[actor].role = "admin"
             THEN IF studentId # NoId /\ castError
                  THEN ReplyLogged(op, 500, "Server error", <<"Get results error:">>)
                  ELSE ResultListReply(op, findResults(classFilter, NoId, semester,
                                                       teacherStudents))
             ELSE ResultListReply(op, findResults(classFilter, studentId, semester,
                                                  AnyCreator))
        /\ UNCHANGED <<users, students, results, nextUid, nextSid, setupInFlight,
                       inflight, nextToken, now, dbVars>>

ResultReaders ==
    {SeedIds.super, SeedIds.admin1, SeedIds.admin2, SeedIds.teacher1, SeedIds.teacher2}

SemesterFilters == {NoFilter, "1st"}

StudentFilters == {NoId, SeedIds.student1}

NextResultList ==
    \/ NextGrade
    \/ \E actor \in ResultReaders, classFilter \in FilterClasses,
          studentId \in StudentFilters, semester \in SemesterFilters,
          castError \in BOOLEAN :
          GetResult(actor, classFilter, studentId, semester, castError)

SpecResultList == InitGrade /\ [][NextResultList]_vars

\* C26: whatever the class, studentId and semester filters, GET /result gives
\* a teacher only results of students in the teacher's assigned classes, and
\* an admin only results of students the admin created.
C26_ResultsWithinScope ==
    [][\A actor \in ResultReaders, classFilter \in FilterClasses,
          studentId \in StudentFilters, semester \in SemesterFilters,
          castError \in BOOLEAN :
          (GetResult(actor, classFilter, studentId, semester, castError)
              /\ resp'.status = 200)
            => \A i \in resp'.results :
                  /\ users[actor].role = "teacher"
                        => results[i].student \in InScope(actor)
                  /\ users[actor].role = "admin"
                        => /\ results[i].student \in DOMAIN students
                           /\ students[results[i].student].createdBy = actor]_vars

(***************************************************************************)
(* The serverless entry (netlify/functions/api.js): the order in which the *)
(* app's middleware is registered and the DB-connection middleware.        *)
(* attempts[p] is the state of the promise the p-th call of connectDB left *)
(* in dbPromise; inflight holds the requests suspended at await dbPromise. *)
(***************************************************************************)
MaxAttempts == 3

\* paths a route of the router answers, and paths the router passes on
RoutedPaths == {"GET /api/", "GET /api/data/subjects/9"}

UnroutedPaths == {"GET /api/unknown", "GET /health"}

\* a request suspended at await dbPromise
Waiter(path, promise) == [op |-> path, promise |-> promise]

\* a continuation of an awaiting request is ready to run: the event loop runs
\* these before it takes the next request
Resumable == {r \in BagToSet(inflight) : attempts[r.promise] # "pending"}

\* app.use('/api', router): the handler of the matching route
routerHandler(path) ==
    IF path = "GET /api/"
    THEN Reply(path, 200, "Hello from Lambda!")
    ELSE [op |-> path, status |-> 200, message |-> "", log |-> <<>>,
          subjects |-> subjectsConfig["9"]]

\* no middleware is left after next(): the default 404 of Express
finalHandler(path) == Reply(path, 404, "Cannot GET")

\* A request enters the app.  The router is registered before the
\* DB-connection middleware, so a path one of its routes answers never reaches
\* that middleware; every other path does.
Arrive(path) ==
    /\ Resumable = {}
    /\ IF path \in RoutedPaths
       THEN /\ resp' = routerHandler(path)
            /\ UNCHANGED <<inflight, dbConnected, dbPromise, attempts>>
       ELSE IF dbConnected
       THEN /\ resp' = finalHandler(path)
            /\ UNCHANGED <<inflight, dbConnected, dbPromise, attempts>>
       ELSE IF dbPromise = NoPromise
       THEN /\ Len(attempts) < MaxAttempts
            /\ attempts' = Append(attempts, "pending")
            /\ dbPromise' = Len(attempts) + 1
            /\ inflight' = inflight (+) SetToBag({Waiter(path, Len(attempts) + 1)})
            /\ UNCHANGED <<resp, dbConnected>>
       ELSE /\ BagCardinality(inflight) < MaxInFlight
            /\ inflight' = inflight (+) SetToBag({Waiter(path, dbPromise)})
            /\ UNCHANGED <<resp, dbConnected, dbPromise, attempts>>
    /\ UNCHANGED <<users, students, results, nextUid, nextSid, setupInFlight,
                   nextToken, now>>

\* connectDB() resolves: the then callback
ConnectResolves(p) ==
    /\ attempts[p] = "pending"
    /\ attempts' = [attempts EXCEPT ![p] = "fulfilled"]
    /\ dbConnected' = TRUE
    /\ UNCHANGED <<users, students, results, resp, nextUid, nextSid, setupInFlight,
                   inflight, nextToken, now, dbPromise>>

\* a catch callback that rethrows without clearing dbPromise
ConnectRejects_NoReset(p) ==
    /\ attempts[p] = "pending"
    /\ attempts' = [attempts EXCEPT ![p] = "rejected"]
    /\ UNCHANGED <<users, students, results, resp, nextUid, nextSid, setupInFlight,
                   inflight, nextToken, now, dbConnected, dbPromise>>

\* connectDB() rejects: the catch callback clears dbPromise and rethrows
ConnectRejects(p) ==
    /\ attempts[p] = "pending"
    /\ attempts' = [attempts EXCEPT ![p] = "rejected"]
    /\ dbPromise' = NoPromise
    /\ UNCHANGED <<users, students, results, resp, nextUid, nextSid, setupInFlight,
                   inflight, nextToken, now, dbConnected>>

\* await dbPromise returns or throws in a suspended request
Resume(r) ==
    /\ r \in Resumable
    /\ inflight' = Answered(r)
    /\ resp' = IF attempts[r.promise] = "fulfilled"
               THEN finalHandler(r.op)
               ELSE [op |-> r.op, status |-> 500, message |-> "connect failed",
                     log |-> <<"DB connection failed:">>,
                     error |-> "Database unavailable"]
    /\ UNCHANGED <<users, students, results, nextUid, nextSid, setupInFlight,
                   nextToken, now, dbVars>>

\* a cold start: nothing has asked for the connection yet
InitEntry ==
    /\ users = SeedUsers
    /\ students = SeedStudents
    /\ results = <<>>
    /\ resp = NoResp
    /\ nextUid = 6
    /\ nextSid = 102
    /\ setupInFlight = 0
    /\ inflight = NoRequests
    /\ nextToken = 1
    /\ now = 0
    /\ dbConnected = FALSE
    /\ dbPromise = NoPromise
    /\ attempts = <<>>

ResumeAny == \E r \in BagToSet(inflight) : Resume(r)

NextEntry ==
    \/ \E path \in RoutedPaths \cup UnroutedPaths : Arrive(path)
    \/ \E p \in 1..Len(attempts) : ConnectResolves(p)
    \/ \E p \in 1..Len(attempts) : ConnectRejects(p)
    \/ ResumeAny

\* a continuation that is ready runs: the event loop does not starve it
SpecEntry == InitEntry /\ [][NextEntry]_vars /\ WF_vars(ResumeAny)

\* the calls of connectDB whose promise is pending or fulfilled
LiveAttempts == {p \in 1..Len(attempts) : attempts[p] # "rejected"}

WaitingOn(p) == {r \in BagToSet(inflight) : r.promise = p}

LastFailed == Len(attempts) > 0 /\ attempts[Len(attempts)] = "rejected"

\* C27: under any interleaving of requests, connectDB is called at most once
\* while an attempt is pending or has succeeded and never again once
\* dbConnected is true; every request waiting on an attempt that failed is
\* answered with the error; after a failed attempt the next request to reach
\* the middleware starts a new attempt.
C27_ConnectOnce ==
    /\ [](Cardinality(LiveAttempts) <= 1)
    /\ [][dbConnected => (attempts' = attempts /\ dbConnected')]_vars
    /\ [][\A r \in BagToSet(inflight) :
            (Resume(r) /\ attempts[r.promise] = "rejected")
               => (resp'.status = 500 /\ resp'.error = "Database unavailable")]_vars
    /\ \A p \in 1..MaxAttempts :
          (p <= Len(attempts) /\ attempts[p] = "rejected") ~> (WaitingOn(p) = {})
    /\ [][\A path \in UnroutedPaths :
            (LastFailed /\ Len(attempts) < MaxAttempts /\ Arrive(path))
               => (Len(attempts') = Len(attempts) + 1
                   /\ attempts'[Len(attempts')] = "pending")]_vars

\* a first attempt failed, and two requests wait together on the second
C27_Witness ==
    /\ Len(attempts) = 2
    /\ attempts[1] = "rejected"
    /\ attempts[2] = "pending"
    /\ BagCardinality(inflight) = 2
    /\ resp.status = 500

\* C28: no route handler of the router runs before the database connection
\* is established.
C28_ConnectedBeforeHandlers ==
    resp.op \in RoutedPaths => dbConnected

(***************************************************************************)
(* Payment fields under the saves of a student that are not payments:      *)
(* the session routes and PUT /student/:id, after PUT /payments.           *)
(***************************************************************************)
\* PUT /student/:id bodies that only rename the student
RenameBodies == {[EmptyStudentBody EXCEPT !.name = "n1"]}

NextPaidSession ==
    \/ \E paymentAmount \in PaymentAmounts, hasPaid \in BOOLEAN :
          inflight = NoRequests
             /\ PutPayment(SeedIds.admin1, SeedIds.student1, paymentAmount, hasPaid)
    \/ \E body \in RenameBodies :
          inflight = NoRequests /\ PutStudent(SeedIds.admin1, SeedIds.student1, body)
    \/ NextSession

SpecPaidSession == InitSession /\ [][NextPaidSession]_vars

\* a step that saves a student for a reason other than payment
SavesStudent ==
    \/ \E r \in BagToSet(inflight) : SigninSave(r) \/ RefreshSave(r) \/ LogoutSave(r)
    \/ \E body \in RenameBodies : PutStudent(SeedIds.admin1, SeedIds.student1, body)

\* C29: a save of a student made by sign-in, refresh, logout or
\* PUT /student/:id leaves the student's paymentAmount and hasPaid as
\* PUT /payments/:studentId stored them.
C29_PaymentKeptBySaves ==
    [][SavesStudent =>
          \A id \in DOMAIN students \cap DOMAIN students' :
             /\ students'[id].hasPaid = students[id].hasPaid
             /\ students'[id].paymentAmount = students[id].paymentAmount]_vars

(***************************************************************************)
(* Who can change role, adminCode and assignedClasses: the account routes  *)
(* of the update router on an installation of three accounts.              *)
(***************************************************************************)
PrivilegeIds == {SeedIds.super, SeedIds.admin1, SeedIds.teacher1}

InitPrivilege ==
    /\ users = [u \in PrivilegeIds |-> SeedUsers[u]]
    /\ students = SeedStudents
    /\ results = <<>>
    /\ resp = NoResp
    /\ nextUid = 6
    /\ nextSid = 102
    /\ setupInFlight = 0
    /\ inflight = NoRequests
    /\ nextToken = 1
    /\ now = 0
    /\ Connected

\* the bodies of the account routes, and one that carries every field
PrivilegeBodies == UserBodies \cup {UserBody("n1", "admin", AdminCode(9), TRUE, {})}

NextPrivilege ==
    \/ \E actor \in PrivilegeIds, id \in PrivilegeIds, body \in PrivilegeBodies :
          PutUser(actor, id, body)
    \/ \E actor \in PrivilegeIds, id \in PrivilegeIds : DeleteUser(actor, id)

SpecPrivilege == InitPrivilege /\ [][NextPrivilege]_vars

\* a request of the account routes issued by actor
IssuedBy(actor) ==
    \/ \E id \in PrivilegeIds, body \in PrivilegeBodies : PutUser(actor, id, body)
    \/ \E id \in PrivilegeIds : DeleteUser(actor, id)

Kept(field) ==
    \A id \in DOMAIN users \cap DOMAIN users' : users'[id][field] = users[id][field]

\* C30: no request of an actor that is not a super admin changes the role or
\* the adminCode of any account, and no request of a teacher changes the
\* assignedClasses of any account.
C30_NoRaiseFromBelow ==
    [][/\ (Kept("role") /\ Kept("adminCode"))
          \/ \A actor \in DOMAIN users :
                users[actor].role # "super_admin" => ~IssuedBy(actor)
       /\ Kept("assignedClasses")
          \/ \A actor \in DOMAIN users :
                users[actor].role = "teacher" => ~IssuedBy(actor)]_vars

\* a PUT carrying firstName, role, adminCode and assignedClasses was applied
\* to teacher1 by a caller that is no super admin: the name was taken, and
\* the account has the role and (no) adminCode it had; a super admin's PUT
\* would have stored the code, which no later request can remove
C30_Witness ==
    /\ resp.op = "PUT /user/:id"
    /\ resp.status = 200
    /\ SeedIds.teacher1 \in DOMAIN users
    /\ users[SeedIds.teacher1].firstName = "n1"
    /\ users[SeedIds.teacher1].role = "teacher"
    /\ users[SeedIds.teacher1].adminCode = NoCode
    /\ users[SeedIds.teacher1].assignedClasses = {<<"9", "A">>}

====
